---- MODULE Spec2Model ----
(***************************************************************************)
(* A model of the ti2-rezdy plugin (src/index.js and its resolvers): the   *)
(* HTTP call wrapper, the booking search orchestrator, the availability    *)
(* fan-out with its projection and key minting, and booking creation.      *)
(*                                                                         *)
(* Absent JavaScript values (undefined, null, '') are the string None.     *)
(* Every upstream response is a record of one shape (Raw), so that TLC can *)
(* compare any two of them.                                                *)
(***************************************************************************)
EXTENDS Integers, Sequences, FiniteSets, TLC

None == "none"

\* ------------------------------------------------------------------ bounds
\* Longest booking list an upstream search response carries.
MaxBookings == 1
\* Most products a payload names.
MaxProducts == 2
\* Most sessions an availability response carries.
MaxSessions == 1
\* Most units a caller requests of one product.
MaxUnits == 2
\* Most products in a listing.
MaxListed == 2
\* Largest quantity of one unit in a booking.
MaxSeats == 3
\* Most participants a caller supplies.
MaxParticipants == 2
\* Most payments a caller supplies.
MaxPayments == 2
\* Most products of a payload that names more products than the fan-out cap.
MaxFanOut == 5
\* Most Plugin instances built in one process.
MaxInstances == 2
\* Most upstream requests made through the instances of one process.
MaxRequests == 3

\* ------------------------------------------------------- program constants
CONCURRENCY == 3
ERROR_CODE_NO_ORDER_FOUND == "24"
\* Any upstream error code other than the sentinel.
OtherErrorCode == "10"

DEFAULT_ENDPOINT == "https://api.rezdy.com/v1"

\* ------------------------------------------------------------------- state
VARIABLES
  endpoint,             \* the instance's endpoint (this.endpoint)
  jwtKey,               \* the instance's signing secret (this.jwtKey), or None
  tokenEndpoint         \* token.endpoint of the call being made

envVars == <<endpoint, jwtKey, tokenEndpoint>>

\* One invocation of searchBooking.
VARIABLES
  sbPayload,            \* bookingId, travelDateStart, travelDateEnd, dateFormat
  sbPc,                 \* "idle", "lookups", "range", "resolved", "rejected";
                        \* None without invocation
  sbInflight,           \* the lookups whose upstream call has not settled
  sbRaw,                \* what upstream answered to each lookup
  results,              \* what searchByUrl returned for each lookup
  hadNonNotFoundError,  \* the flag of this invocation
  bookings,             \* the list handed to projection
  sbError,              \* the error the operation rejected with
  sbCalls               \* upstream calls issued by this invocation

searchVars ==
  <<sbPayload, sbPc, sbInflight, sbRaw, results, hadNonNotFoundError, bookings,
    sbError, sbCalls>>

\* One invocation of searchAvailability or availabilityCalendar.
VARIABLES
  avOp,                   \* which of the two operations is running
  avPayload,              \* productIds, optionIds, units
  avPc,                   \* "idle", "fetch", "pickups", "resolved", "rejected";
                          \* None without invocation
  avQueued,               \* indexes Promise.map has not started yet
  avInflight,             \* indexes whose upstream call has not settled
  availability,           \* per index, the sessions extracted from the response
  pickupPointsByProduct,  \* per index, the pickup points fetched
  avOut,                  \* the availability array returned
  avError,                \* the error the operation rejected with
  availCalls,             \* GET /availability calls issued
  pickupCalls,            \* GET /products/{id}/pickups calls issued
  avRaw,                  \* per index, the answer to the availability request
  pkRaw                   \* per index, the answer to the pickup request
                          \* (both as far as AnswerKept keeps it)

availVars ==
  <<avOp, avPayload, avPc, avQueued, avInflight, availability,
    pickupPointsByProduct, avOut, avError, availCalls, pickupCalls, avRaw, pkRaw>>

\* One invocation of createBooking.
VARIABLES
  bkSource,          \* how the caller came by the key, and from what search
  availabilityKey,   \* payload.availabilityKey
  holder,            \* payload.holder
  participants,      \* payload.participants
  payments,          \* payload.payments
  bkPc,              \* "idle", "posting", "resolved", "rejected"
  dataFromAvailKey,  \* the verified payload of the key
  bookingData,       \* the request posted to /bookings
  bkError,           \* the error the operation rejected with
  bkCalls            \* upstream calls issued by this invocation

bookVars ==
  <<bkSource, availabilityKey, holder, participants, payments, bkPc,
    dataFromAvailKey, bookingData, bkError, bkCalls>>

\* One invocation of validateToken, and the diagnostic events of its call.
VARIABLES
  apiKey,     \* token.apiKey
  events,     \* whether the plugin was built with an event emitter
  vtPc,       \* "idle", "pending", "resolved", "rejected"
  vtRaw,      \* what axios did with the products request
  vtResult,   \* the boolean the operation resolved to: "true", "false"
  vtError,    \* the error the operation rejected with
  vtCalls,    \* upstream calls issued by this invocation
  emitted     \* the events emitted so far, in order

tokenVars == <<apiKey, events, vtPc, vtRaw, vtResult, vtError, vtCalls, emitted>>

\* One projection of a booking record by translateBooking.
VARIABLES
  tbOp,         \* the operation that projects: createBooking, cancelBooking, searchBooking
  tbRootValue,  \* the record given to translateBooking
  tbPc,         \* "idle", "done"
  tbData        \* the projected record

tbVars == <<tbOp, tbRootValue, tbPc, tbData>>

\* One call of validateEndpoint on an instance.
VARIABLES
  veInput,   \* the argument, a JavaScript value
  vePc,      \* "idle", "returned", "threw"
  veValue,   \* the value returned
  veError    \* the error thrown

veVars == <<veInput, vePc, veValue, veError>>

\* One call of extractAvailabilityData.
VARIABLES
  exData,   \* the payload it is given
  exPc,     \* "idle", "returned"
  exOut     \* the array it returned

exVars == <<exData, exPc, exOut>>

\* One call of calculateSeatsAvailable.
VARIABLES
  csAvail,  \* the record it is given
  csPc,     \* "idle", "returned"
  csOut     \* the number it returned

csVars == <<csAvail, csPc, csOut>>

\* One call of the plugin's HTTP wrapper, this.axios.
VARIABLES
  axRaw,     \* what axios does with the request
  axPc,      \* "idle", "returned", "threw"
  axResult   \* what PluginAxios made of it

axVars == <<axRaw, axPc, axResult>>

\* The Plugin instances of one process and the axios module they share.
VARIABLES
  instances,     \* per instance: whether it is built, and with an event emitter
  interceptors,  \* the instances whose handlers axiosRaw.interceptors holds
  channel,       \* per instance, the events emitted on its emitter
  requestsMade   \* per instance, the upstream requests made through it

instVars == <<instances, interceptors, channel, requestsMade>>

vars == <<envVars, searchVars, availVars, bookVars, tokenVars, tbVars, veVars, exVars, csVars, axVars, instVars>>

\* ------------------------------------------------------------ small helpers
SeqsUpTo(S, n) == UNION {[1..k -> S] : k \in 0..n}

\* ------------------------------------------------------- endpoint validation
\* The strings new URL() accepts, among the endpoints of the model.
WellFormedUrls == {DEFAULT_ENDPOINT, "https://x.com"}
TokenEndpoints == {None, "not-a-url"}

\* isValidUrl: a non-empty string that new URL() parses.
isValidUrl(string) == string # None /\ string \in WellFormedUrls

\* validateEndpoint of an instance whose endpoint is inst, on an absent (None)
\* or string argument: the value it returns, or that it throws.
validateEndpoint(inst, e) ==
  IF e = None \/ e = ""
    THEN [threw |-> FALSE,
          value |-> IF inst # None /\ inst # "" THEN inst ELSE DEFAULT_ENDPOINT]
  ELSE IF ~isValidUrl(e) THEN [threw |-> TRUE, value |-> None]
  ELSE [threw |-> FALSE, value |-> e]

\* Plugin.constructor: the endpoint of an instance built with params.endpoint.
ConstructedEndpoint(param) ==
  IF param = None \/ param = "" THEN DEFAULT_ENDPOINT ELSE param

\* A JavaScript value given as endpoint: its type, and the string or number
\* it is.
JsValue(type, str, num) == [type |-> type, str |-> str, num |-> num]

JsString(s) == JsValue("string", s, 0)
JsNumber(n) == JsValue("number", "", n)

\* The arguments of validateEndpoint: undefined, null, strings (empty, two
\* URLs, two that are no URL), numbers, booleans, an object, an array.
EndpointInputs ==
  { JsValue("undefined", "", 0), JsValue("null", "", 0),
    JsString(""), JsString(DEFAULT_ENDPOINT), JsString("https://x.com"),
    JsString("not-a-url"), JsString("://invalid"),
    JsNumber(123), JsNumber(0),
    JsValue("boolean", "true", 0), JsValue("boolean", "false", 0),
    JsValue("object", "", 0), JsValue("array", "", 0) }

\* !value is false
Truthy(v) ==
  CASE v.type \in {"undefined", "null"} -> FALSE
    [] v.type = "string" -> v.str # ""
    [] v.type = "number" -> v.num # 0
    [] v.type = "boolean" -> v.str = "true"
    [] OTHER -> TRUE

\* validateEndpoint on any JavaScript value: a falsy value takes the instance's
\* endpoint, a value that is not a string is no valid URL.
validateEndpointOfValue(inst, v) ==
  IF v.type = "string" THEN validateEndpoint(inst, v.str)
  ELSE IF ~Truthy(v) THEN validateEndpoint(inst, None)
  ELSE [threw |-> TRUE, value |-> None]

\* The endpoints an instance is built with, or is assigned later.
InstanceEndpoints == {None, "", "https://x.com", "not-a-url"}

InitEndpoint ==
  /\ \E param \in InstanceEndpoints : endpoint = ConstructedEndpoint(param)
  /\ jwtKey = None
  /\ tokenEndpoint = None
  /\ veInput \in EndpointInputs
  /\ vePc = "idle"
  /\ veValue = None
  /\ veError = None

\* plugin.endpoint = value, after construction.
AssignEndpoint ==
  /\ vePc = "idle"
  /\ \E value \in InstanceEndpoints : endpoint' = value
  /\ UNCHANGED <<jwtKey, tokenEndpoint, veInput, vePc, veValue, veError>>
  /\ UNCHANGED <<searchVars, availVars, bookVars, tokenVars, tbVars, exVars, csVars, axVars, instVars>>

\* plugin.validateEndpoint(veInput)
ValidateEndpoint ==
  /\ vePc = "idle"
  /\ LET r == validateEndpointOfValue(endpoint, veInput)
     IN  IF r.threw
           THEN vePc' = "threw" /\ veError' = "Invalid endpoint URL" /\ UNCHANGED veValue
           ELSE vePc' = "returned" /\ veValue' = r.value /\ UNCHANGED veError
  /\ UNCHANGED veInput
  /\ UNCHANGED <<envVars, searchVars, availVars, bookVars, tokenVars, tbVars, exVars, csVars, axVars, instVars>>

NextEndpoint == AssignEndpoint \/ ValidateEndpoint

\* --------------------------------------------------------- upstream bodies
\* A booking as the upstream API returns it: the two identifying fields.
UpstreamBookings ==
  { [orderNumber |-> "A", id |-> None],
    [orderNumber |-> None, id |-> "A"],
    [orderNumber |-> "B", id |-> None],
    [orderNumber |-> None, id |-> None] }

EmptyObject == [orderNumber |-> None, id |-> None]

BookingLists == SeqsUpTo(UpstreamBookings, MaxBookings)

\* What axios (the HTTP library) does with one request:
\*   http    "ok" it resolves with a response, "fail" it rejects with an error
\*           that carries the response (a 4xx/5xx), "neterr" it rejects with an
\*           error that carries no response
\*   rs      the body's requestStatus: None (no wrapper), or its success field:
\*           "true", "false", "unset" (undefined or null)
\*   code    requestStatus.error.errorCode
\*   details the body carries a details object
\*   shape   the body besides the wrapper: "bookings" {bookings: list},
\*           "array" the list itself, "object" one object (obj), "null" no body
MkRaw(http, rs, code, details, shape, list, obj) ==
  [http |-> http, rs |-> rs, code |-> code, details |-> details,
   shape |-> shape, list |-> list, obj |-> obj]

NoRaw == MkRaw(None, None, None, FALSE, "null", <<>>, EmptyObject)

OkBookingsRaws ==
  { MkRaw("ok", None, None, FALSE, sh, l, EmptyObject) :
      sh \in {"bookings", "array"}, l \in BookingLists }
OkObjectRaws ==
  { MkRaw("ok", rs, None, FALSE, "object", <<>>, o) :
      rs \in {None, "true"}, o \in UpstreamBookings }
OkNullRaws == { MkRaw("ok", None, None, FALSE, "null", <<>>, EmptyObject) }
\* A 200 whose body says requestStatus.success false.
OkFailRaws ==
  { MkRaw("ok", "false", c, d, "object", <<>>, EmptyObject) :
      c \in {ERROR_CODE_NO_ORDER_FOUND, OtherErrorCode, None}, d \in BOOLEAN }
\* A failed HTTP response, with or without a requestStatus wrapper in its body.
HttpFailRaws ==
  { MkRaw("fail", "false", c, d, "object", <<>>, EmptyObject) :
      c \in {ERROR_CODE_NO_ORDER_FOUND, OtherErrorCode}, d \in BOOLEAN }
  \cup { MkRaw("fail", None, None, d, "object", <<>>, EmptyObject) : d \in BOOLEAN }
NetErrRaws == { MkRaw("neterr", None, None, FALSE, "null", <<>>, EmptyObject) }

SearchRaws ==
  OkBookingsRaws \cup OkObjectRaws \cup OkNullRaws \cup OkFailRaws
    \cup HttpFailRaws \cup NetErrRaws

\* ------------------------------------------------------ the HTTP call wrapper
\* A thrown value: an Error (with the response it carries, if any) or the body's
\* details object.
MkThrown(kind, raw) == [kind |-> kind, raw |-> raw]
NoThrown == MkThrown(None, NoRaw)

\* R.path(['response','data','requestStatus','error','errorCode'], err)
ErrorCodeOf(t) ==
  IF t.kind = "error" /\ t.raw.http \in {"ok", "fail"} /\ t.raw.shape # "null"
     /\ t.raw.rs # None
  THEN t.raw.code ELSE None

\* throw R.pathOr(err, ['response', 'data', 'details'], err)
Rethrown(err) ==
  IF err.raw.http \in {"ok", "fail"} /\ err.raw.shape # "null" /\ err.raw.details
  THEN MkThrown("details", err.raw) ELSE err

\* A variant that hands every received response to its caller.
PluginAxiosReturningFailures(raw) ==
  LET returns == raw.http = "ok"
      err == MkThrown("error", raw)
  IN  [ returned |-> returns,
        response |-> IF returns THEN raw ELSE NoRaw,
        thrown   |-> IF returns THEN NoThrown ELSE Rethrown(err),
        errorEvent |-> ~returns /\ ErrorCodeOf(err) # ERROR_CODE_NO_ORDER_FOUND ]

\* Plugin.axios: the response it returns, or the value it throws, and whether
\* it emitted the axios.error event.
PluginAxios(raw) ==
  LET apiFail == raw.http = "ok" /\ raw.shape # "null" /\ raw.rs # None
                   /\ raw.rs # "true"
      returns == raw.http = "ok"
                   /\ (~apiFail \/ raw.code = ERROR_CODE_NO_ORDER_FOUND)
      err == MkThrown("error", raw)
  IN  [ returned |-> returns,
        response |-> IF returns THEN raw ELSE NoRaw,
        thrown   |-> IF returns THEN NoThrown ELSE Rethrown(err),
        errorEvent |-> ~returns /\ ErrorCodeOf(err) # ERROR_CODE_NO_ORDER_FOUND ]

\* What axios can do with a request: a transport error, or a response, failed
\* or not, without body or with a body that has or lacks a requestStatus.
WrapperRaws ==
  { MkRaw("neterr", None, None, FALSE, "null", <<>>, EmptyObject) }
  \cup { MkRaw(h, None, None, FALSE, "null", <<>>, EmptyObject) : h \in {"ok", "fail"} }
  \cup { MkRaw(h, None, None, d, sh, <<>>, EmptyObject) :
           h \in {"ok", "fail"}, d \in BOOLEAN, sh \in {"object", "bookings", "array"} }
  \cup { MkRaw(h, rs, c, d, sh, <<>>, EmptyObject) :
           h \in {"ok", "fail"}, rs \in {"true", "false", "unset"},
           c \in {ERROR_CODE_NO_ORDER_FOUND, OtherErrorCode, None},
           d \in BOOLEAN, sh \in {"object", "bookings"} }

InitWrapper ==
  /\ endpoint = ConstructedEndpoint(None)
  /\ jwtKey = None
  /\ tokenEndpoint = None
  /\ axRaw \in WrapperRaws
  /\ axPc = "idle"
  /\ axResult = PluginAxios(NoRaw)

\* await this.axios(request)
AxiosCall ==
  /\ axPc = "idle"
  /\ axResult' = PluginAxios(axRaw)
  /\ axPc' = IF PluginAxios(axRaw).returned THEN "returned" ELSE "threw"
  /\ UNCHANGED axRaw
  /\ UNCHANGED <<envVars, searchVars, availVars, bookVars, tokenVars, tbVars, veVars, exVars, csVars, instVars>>

NextWrapper == AxiosCall

\* ------------------------------------------------- instances of the plugin
NotBuilt == [built |-> FALSE, events |-> FALSE]

\* An event on an emitter: its name, made of the name of the instance whose
\* handler emitted it, and the instance the request was made through.
InstanceEvent(owner, kind, through) ==
  [name |-> <<owner, kind>>, through |-> through]

\* The events the handlers registered on the shared axios module emit on the
\* emitter of instance q, for a request made through instance p.
RECURSIVE HandlerEvents(_, _, _, _)
HandlerEvents(registered, q, kind, p) ==
  IF registered = <<>> THEN <<>>
  ELSE (IF Head(registered) = q THEN <<InstanceEvent(q, kind, p)>> ELSE <<>>)
         \o HandlerEvents(Tail(registered), q, kind, p)

\* The requests made through the first n instances.
RECURSIVE RequestsThrough(_)
RequestsThrough(n) == IF n = 0 THEN 0 ELSE requestsMade[n] + RequestsThrough(n - 1)

InitInstances ==
  /\ endpoint = ConstructedEndpoint(None)
  /\ jwtKey = None
  /\ tokenEndpoint = None
  /\ instances = [p \in 1..MaxInstances |-> NotBuilt]
  /\ interceptors = <<>>
  /\ channel = [p \in 1..MaxInstances |-> <<>>]
  /\ requestsMade = [p \in 1..MaxInstances |-> 0]

\* new Plugin({name, events}): with an emitter, the constructor adds a request
\* and a response handler to the interceptors of the axios module.
PluginConstructor(p) ==
  /\ ~instances[p].built
  /\ \E ev \in BOOLEAN :
       /\ instances' = [instances EXCEPT ![p] = [built |-> TRUE, events |-> ev]]
       /\ interceptors' = IF ev THEN Append(interceptors, p) ELSE interceptors
  /\ UNCHANGED <<channel, requestsMade>>
  /\ UNCHANGED <<envVars, searchVars, availVars, bookVars, tokenVars, tbVars, veVars, exVars, csVars, axVars>>

\* One upstream request through this.axios of instance p: axios runs every
\* registered request handler, then, for a response, every registered response
\* handler; for an error the wrapper emits on the emitter of p alone.
InstanceRequest(p) ==
  /\ instances[p].built
  /\ RequestsThrough(MaxInstances) < MaxRequests
  /\ requestsMade' = [requestsMade EXCEPT ![p] = @ + 1]
  /\ \E responded \in BOOLEAN :
       channel' =
         [q \in 1..MaxInstances |->
            channel[q]
              \o HandlerEvents(interceptors, q, "axios.request", p)
              \o (IF responded
                    THEN HandlerEvents(interceptors, q, "axios.response", p)
                    ELSE IF q = p /\ instances[p].events
                      THEN <<InstanceEvent(p, "axios.error", p)>> ELSE <<>>)]
  /\ UNCHANGED <<instances, interceptors>>
  /\ UNCHANGED <<envVars, searchVars, availVars, bookVars, tokenVars, tbVars, veVars, exVars, csVars, axVars>>

NextInstances ==
  \/ \E p \in 1..MaxInstances : PluginConstructor(p)
  \/ \E p \in 1..MaxInstances : InstanceRequest(p)

\* ------------------------------------------------------------ searchBooking
\* The three strategies, in the order Promise.all lists them: the direct-id
\* lookup, the reseller-reference lookup, the free-text search.
Strategies == 1..3

NullResult == [isNull |-> TRUE, list |-> <<>>]
ListResult(l) == [isNull |-> FALSE, list |-> l]

\* isNilOrEmpty of a payload field
isNilOrEmpty(v) == v = None

\* The payloads of searchBooking: every combination of the three date fields
\* without a bookingId; with one, no date field or all of them.
SearchPayloads ==
  { p \in [bookingId : {None, "X"}, travelDateStart : {None, "d1"},
            travelDateEnd : {None, "d2"}, dateFormat : {None, "fmt"}] :
      p.bookingId # None =>
        \/ {p.travelDateStart, p.travelDateEnd, p.dateFormat} = {None}
        \/ None \notin {p.travelDateStart, p.travelDateEnd, p.dateFormat} }

\* The body of searchByUrl's try block on a returned response.
SearchByUrlReturned(raw) ==
  IF raw.shape # "null" /\ raw.rs # None /\ raw.rs # "true"
    THEN [result |-> NullResult, realError |-> FALSE]
  ELSE IF raw.shape = "null"
    \* data.bookings on an absent body throws a TypeError, caught below
    THEN [result |-> NullResult, realError |-> TRUE]
  ELSE IF raw.shape = "bookings"
    THEN [result |-> ListResult(raw.list), realError |-> FALSE]
  ELSE IF raw.shape = "array"
    THEN [result |-> ListResult(raw.list), realError |-> FALSE]
  ELSE [result |-> ListResult(<<raw.obj>>), realError |-> FALSE]

\* searchByUrl: the value it resolves to and whether it set hadNonNotFoundError.
searchByUrl(raw) ==
  LET a == PluginAxios(raw)
  IN  IF a.returned THEN SearchByUrlReturned(a.response)
      ELSE IF ErrorCodeOf(a.thrown) = ERROR_CODE_NO_ORDER_FOUND
        THEN [result |-> NullResult, realError |-> FALSE]
      ELSE [result |-> NullResult, realError |-> TRUE]

\* A deduplication that looks at orderNumber alone.
DedupKeyOrderNumberOnly(b) == b.orderNumber

\* booking?.orderNumber || booking?.id
DedupKey(b) == IF b.orderNumber # None THEN b.orderNumber ELSE b.id

\* results.filter(Boolean).reduce(concat): the non-null results, flattened.
RECURSIVE AllBookings(_)
AllBookings(rs) ==
  IF rs = <<>> THEN <<>>
  ELSE (IF Head(rs).isNull THEN <<>> ELSE Head(rs).list) \o AllBookings(Tail(rs))

\* allBookings.filter(...) with the seen set.
RECURSIVE DedupFrom(_, _)
DedupFrom(bs, seen) ==
  IF bs = <<>> THEN <<>>
  ELSE LET k == DedupKey(Head(bs))
       IN  IF k = None \/ k \in seen THEN DedupFrom(Tail(bs), seen)
           ELSE <<Head(bs)>> \o DedupFrom(Tail(bs), seen \cup {k})

Dedup(bs) == DedupFrom(bs, {})

\* The precondition of searchBooking.
SearchPrecondition(p) ==
  ~isNilOrEmpty(p.bookingId)
    \/ ~(isNilOrEmpty(p.travelDateStart) /\ isNilOrEmpty(p.travelDateEnd)
          /\ isNilOrEmpty(p.dateFormat))

\* The check after the branches: throw, or hand the bookings to projection.
SearchOutcome(bs, flag) ==
  IF bs = <<>> /\ flag
    THEN [pc |-> "rejected", error |-> "Search booking failed due to API errors"]
    ELSE [pc |-> "resolved", error |-> None]

InitSearch ==
  /\ endpoint = ConstructedEndpoint(None)
  /\ jwtKey = "k1"
  /\ tokenEndpoint \in TokenEndpoints
  /\ sbPayload \in SearchPayloads
  /\ sbPc = "idle"
  /\ sbInflight = {}
  /\ sbRaw = [i \in Strategies |-> NoRaw]
  /\ results = [i \in Strategies |-> NullResult]
  /\ hadNonNotFoundError = FALSE
  /\ bookings = <<>>
  /\ sbError = None
  /\ sbCalls = 0

\* searchBooking up to its first await: the precondition, then the branch.
SearchBookingCall ==
  /\ sbPc = "idle"
  /\ IF ~SearchPrecondition(sbPayload)
       THEN /\ sbPc' = "rejected"
            /\ sbError' = "at least one parameter is required"
            /\ UNCHANGED <<sbInflight, sbCalls>>
     ELSE IF validateEndpoint(endpoint, tokenEndpoint).threw
       THEN /\ sbPc' = "rejected"
            /\ sbError' = "Invalid endpoint URL"
            /\ UNCHANGED <<sbInflight, sbCalls>>
     ELSE IF ~isNilOrEmpty(sbPayload.bookingId)
       THEN /\ sbPc' = "lookups"
            /\ sbInflight' = Strategies
            /\ sbCalls' = sbCalls + 3
            /\ UNCHANGED sbError
     ELSE IF ~isNilOrEmpty(sbPayload.travelDateStart)
       THEN /\ sbPc' = "range"
            /\ sbInflight' = {1}
            /\ sbCalls' = sbCalls + 1
            /\ UNCHANGED sbError
     ELSE   \* return []: neither branch
            /\ sbPc' = SearchOutcome(<<>>, hadNonNotFoundError).pc
            /\ sbError' = SearchOutcome(<<>>, hadNonNotFoundError).error
            /\ UNCHANGED <<sbInflight, sbCalls>>
  /\ UNCHANGED <<sbPayload, sbRaw, results, hadNonNotFoundError, bookings>>
  /\ UNCHANGED <<envVars, availVars, bookVars, tokenVars, tbVars, veVars, exVars, csVars, axVars, instVars>>

\* A variant that collects the results in the order the lookups complete.
StoreResultOnCompletion(rs, i, r) ==
  [rs EXCEPT ![Cardinality(Strategies) + 1 - Cardinality(sbInflight)] = r]

\* Promise.all: the value of the i-th promise becomes the i-th result.
StoreResult(rs, i, r) == [rs EXCEPT ![i] = r]

\* One of the three concurrent lookups settles: searchByUrl runs to its return.
LookupSettle(i) ==
  /\ sbPc = "lookups"
  /\ i \in sbInflight
  /\ \E raw \in SearchRaws :
       LET r == searchByUrl(raw)
       IN  /\ sbRaw' = [sbRaw EXCEPT ![i] = raw]
           /\ results' = StoreResult(results, i, r.result)
           /\ hadNonNotFoundError' = (hadNonNotFoundError \/ r.realError)
  /\ sbInflight' = sbInflight \ {i}
  /\ UNCHANGED <<sbPayload, sbPc, bookings, sbError, sbCalls>>
  /\ UNCHANGED <<envVars, availVars, bookVars, tokenVars, tbVars, veVars, exVars, csVars, axVars, instVars>>

\* Promise.all has resolved: merge, deduplicate, then the final check.
SearchBookingMerge ==
  /\ sbPc = "lookups"
  /\ sbInflight = {}
  /\ LET bs == Dedup(AllBookings(results))
         o == SearchOutcome(bs, hadNonNotFoundError)
     IN  /\ bookings' = bs
         /\ sbPc' = o.pc
         /\ sbError' = o.error
  /\ UNCHANGED <<sbPayload, sbInflight, sbRaw, results, hadNonNotFoundError, sbCalls>>
  /\ UNCHANGED <<envVars, availVars, bookVars, tokenVars, tbVars, veVars, exVars, csVars, axVars, instVars>>

\* The date-range lookup settles.
RangeSettle ==
  /\ sbPc = "range"
  /\ \E raw \in SearchRaws :
       LET a == PluginAxios(raw)
           absorbed ==
             \* err.response && err.response.data && err.response.data.requestStatus
             /\ a.thrown.kind = "error"
             /\ a.thrown.raw.http \in {"ok", "fail"}
             /\ a.thrown.raw.shape # "null"
             /\ a.thrown.raw.rs # None
             /\ ErrorCodeOf(a.thrown) = ERROR_CODE_NO_ORDER_FOUND
           \* R.pathOr([], ['bookings'], data)
           found == IF a.response.shape = "bookings" /\ a.response.rs \in {None, "true"}
                    THEN a.response.list ELSE <<>>
       IN  /\ sbRaw' = [sbRaw EXCEPT ![1] = raw]
           /\ IF a.returned \/ absorbed
                THEN /\ bookings' = (IF a.returned THEN found ELSE <<>>)
                     /\ sbPc' = SearchOutcome(bookings', hadNonNotFoundError).pc
                     /\ sbError' = SearchOutcome(bookings', hadNonNotFoundError).error
                ELSE /\ bookings' = bookings
                     /\ sbPc' = "rejected"
                     /\ sbError' = "upstream error"
  /\ sbInflight' = {}
  /\ UNCHANGED <<sbPayload, results, hadNonNotFoundError, sbCalls>>
  /\ UNCHANGED <<envVars, availVars, bookVars, tokenVars, tbVars, veVars, exVars, csVars, axVars, instVars>>

NextSearch ==
  \/ SearchBookingCall
  \/ \E i \in Strategies : LookupSettle(i)
  \/ SearchBookingMerge
  \/ RangeSettle

\* ------------------------------------------------------ availability records
\* An optional number is a sequence: <<>> when the field is undefined, <<n>>
\* when it holds n.
Absent == <<>>
Some(n) == <<n>>

\* A price option of a session: identifier (id / unitId), label (label / name /
\* unitName), unit price (price / amount).
PriceOption(id, unitId, label, price, amount) ==
  [id |-> id, unitId |-> unitId, label |-> label, name |-> None,
   unitName |-> None, price |-> price, amount |-> amount]

\* A requested unit of the payload.
Unit(unitId, quantity, unitName) ==
  [unitId |-> unitId, quantity |-> quantity, unitName |-> unitName, label |-> None]

\* A variant that keeps the letter case.
ToLowerCaseKeepingCase(str) == str

\* String(x).toLowerCase() on the identifiers of the model.
ToLowerCase(str) ==
  CASE str = "ADULTS" -> "adults"
    [] str = "CHILD" -> "child"
    [] str = "Collect" -> "collect"
    [] OTHER -> str

\* An upstream session of product p. Fields the model never fills (endTimeLocal,
\* allDay, the nested availability.status) are left out.
Session(p, id, status, seats, start, priceOptions) ==
  [productCode |-> p, id |-> id,
   status |-> status, availabilityStatus |-> None,
   seatsAvailable |-> seats, available |-> Absent, vacancies |-> Absent,
   availableSeats |-> Absent, remainingSeats |-> Absent,
   startTimeLocal |-> start, startTime |-> None, start |-> None,
   priceOptions |-> priceOptions]

STATUS_AVAILABLE == "AVAILABLE"
STATUS_FREESALE == "FREESALE"

\* --------------------------------------------------------- seat normalizer
\* calculateSeatsAvailable on a record (never null here): the first defined of
\* the five fields, 0 if none; Number(n) || 0 of a number n is n.
calculateSeatsAvailable(avail) ==
  LET seats == IF avail.seatsAvailable # Absent THEN avail.seatsAvailable
               ELSE IF avail.available # Absent THEN avail.available
               ELSE IF avail.vacancies # Absent THEN avail.vacancies
               ELSE IF avail.availableSeats # Absent THEN avail.availableSeats
               ELSE IF avail.remainingSeats # Absent THEN avail.remainingSeats
               ELSE Some(0)
  IN  seats[1]

\* ------------------------------------------------------ availability key codec
\* findPriceOptionByUnitId: <<>> for null, <<p>> for the first matching option.
RECURSIVE findPriceOptionByUnitId(_, _)
findPriceOptionByUnitId(priceOptions, unitId) ==
  IF unitId = None \/ priceOptions = <<>> THEN <<>>
  ELSE LET p == Head(priceOptions)
           unitIdStr == ToLowerCase(unitId)
           pIdStr == IF p.id # None THEN ToLowerCase(p.id) ELSE ""
           pUnitIdStr == IF p.unitId # None THEN ToLowerCase(p.unitId) ELSE ""
       IN  IF pIdStr = unitIdStr \/ pUnitIdStr = unitIdStr
              \/ p.id = unitId \/ p.unitId = unitId
           THEN <<p>>
           ELSE findPriceOptionByUnitId(Tail(priceOptions), unitId)

\* findPriceOptionByLabel
RECURSIVE findPriceOptionByLabel(_, _)
findPriceOptionByLabel(priceOptions, label) ==
  IF label = None \/ priceOptions = <<>> THEN <<>>
  ELSE LET p == Head(priceOptions)
           labelStr == ToLowerCase(label)
           pLabelStr == IF p.label # None THEN ToLowerCase(p.label) ELSE ""
           pNameStr == IF p.name # None THEN ToLowerCase(p.name) ELSE ""
       IN  IF pLabelStr = labelStr \/ pNameStr = labelStr THEN <<p>>
           ELSE findPriceOptionByLabel(Tail(priceOptions), label)

\* a || b || c on strings
Or3(a, b, c) == IF a # None THEN a ELSE IF b # None THEN b ELSE c

\* unit.price !== undefined ? unit.price : (unit.amount || 0)
PriceOf(unit) ==
  IF unit.price # Absent THEN unit.price[1]
  ELSE IF unit.amount # Absent THEN unit.amount[1] ELSE 0

\* The reduce of the key and pricing resolvers: the sum of price * quantity over
\* the units that have a unitId and a matching price option.
RECURSIVE SumUnits(_, _)
SumUnits(unitsWithQuantity, priceOptions) ==
  IF unitsWithQuantity = <<>> THEN 0
  ELSE LET u == Head(unitsWithQuantity)
           unit == findPriceOptionByUnitId(priceOptions, u.unitId)
           rest == SumUnits(Tail(unitsWithQuantity), priceOptions)
       IN  IF u.unitId = None \/ unit = <<>> THEN rest
           ELSE PriceOf(unit[1]) * u.quantity + rest

\* The label of one entry of the key's quantities list.
OptionLabel(o, priceOptions) ==
  LET own == Or3(o.unitName, o.label, None)
      byId == IF own = None /\ o.unitId # None
                THEN findPriceOptionByUnitId(priceOptions, o.unitId) ELSE <<>>
      l2 == IF byId # <<>>
              THEN Or3(byId[1].label, byId[1].name, byId[1].unitName) ELSE own
      byLabel == IF l2 = None /\ Or3(o.label, o.unitName, None) # None
                   THEN findPriceOptionByLabel(priceOptions, Or3(o.label, o.unitName, None))
                   ELSE <<>>
      l3 == IF byLabel # <<>>
              THEN Or3(byLabel[1].label, byLabel[1].name, byLabel[1].unitName) ELSE l2
  IN  IF l3 # None THEN l3 ELSE "Adult"

\* (unitsWithQuantity || []).filter(o => o && o.quantity).map(...)
RECURSIVE KeyQuantities(_, _)
KeyQuantities(unitsWithQuantity, priceOptions) ==
  IF unitsWithQuantity = <<>> THEN <<>>
  ELSE LET o == Head(unitsWithQuantity)
           rest == KeyQuantities(Tail(unitsWithQuantity), priceOptions)
       IN  IF o.quantity = 0 THEN rest
           ELSE <<[optionLabel |-> OptionLabel(o, priceOptions),
                   value |-> o.quantity]>> \o rest

\* The payload of an availability key.
KeyPayload(items, totalAmount) == [items |-> items, totalAmount |-> totalAmount]
EmptyPayload == KeyPayload(<<>>, 0)

\* jwt.sign(payload, secret): the payload and a MAC over it under the secret.
JwtSign(payload, secret) ==
  [kind |-> "jwt", payload |-> payload, mac |-> [over |-> payload, secret |-> secret]]

\* No key: null in a projected record, absent in a payload.
NoKey == [kind |-> None, payload |-> EmptyPayload,
          mac |-> [over |-> EmptyPayload, secret |-> None]]

\* A variant that decodes the token without verifying its MAC.
JwtDecodeOnly(token, secret) ==
  [threw |-> token.kind # "jwt",
   payload |-> IF token.kind = "jwt" THEN token.payload ELSE EmptyPayload]

\* jwt.verify(token, secret): the payload when the token is a JWT whose MAC was
\* made over its payload under this secret; it throws otherwise.
JwtVerify(token, secret) ==
  LET ok == /\ token.kind = "jwt"
            /\ secret # None
            /\ token.mac.secret = secret
            /\ token.mac.over = token.payload
  IN  [threw |-> ~ok, payload |-> IF ok THEN token.payload ELSE EmptyPayload]

\* resolvers.Query.key on a root value, with the query's variables.
Query_key(root, args) ==
  IF args.jwtKey = None THEN NoKey
  ELSE IF Or3(root.status, root.availabilityStatus, None)
            \notin {STATUS_AVAILABLE, STATUS_FREESALE} THEN NoKey
  ELSE IF Or3(root.startTimeLocal, root.startTime, root.start) = None THEN NoKey
  ELSE LET priceOptions == root.priceOptions
           totalAmount == IF priceOptions # <<>>
                            THEN SumUnits(args.unitsWithQuantity, priceOptions)
                            ELSE 0
       IN  JwtSign(
             KeyPayload(
               <<[productCode |-> args.productId,
                  startTimeLocal |-> Or3(root.startTimeLocal, root.startTime, root.start),
                  quantities |-> KeyQuantities(args.unitsWithQuantity, priceOptions)]>>,
               totalAmount),
             args.jwtKey)

\* resolvers.Query.pricing: the total shown to the caller.
\* A variant that prices the first requested unit only.
Query_pricingOfFirstUnit(root) ==
  IF root.unitsWithQuantity = <<>> \/ root.priceOptions = <<>> THEN 0
  ELSE SumUnits(<<Head(root.unitsWithQuantity)>>, root.priceOptions)

Query_pricing(root) ==
  IF root.unitsWithQuantity = <<>> \/ root.priceOptions = <<>> THEN 0
  ELSE SumUnits(root.unitsWithQuantity, root.priceOptions)

\* resolvers.Query.pickupPoints: each point by its locationName.
Query_pickupPoints(root) ==
  [i \in 1..Len(root.pickupPoints) |-> root.pickupPoints[i].locationName]

\* translateAvailability: the fields of the projected record the model follows.
translateAvailability(rootValue, variableValues) ==
  [key |-> Query_key(rootValue, variableValues),
   dateTimeStart |-> Or3(rootValue.startTimeLocal, rootValue.startTime, rootValue.start),
   vacancies |-> rootValue.seatsAvailable,
   available |-> rootValue.seatsAvailable > 0,
   pricing |-> Query_pricing(rootValue),
   pickupAvailable |-> rootValue.pickupPoints # <<>>,
   pickupPoints |-> Query_pickupPoints(rootValue)]

\* ---------------------------------------------------- availability responses
\* The sessions upstream holds for product p, in the order it returns them:
\* sellable by status, free sale, sold out, sellable by seat count alone, of no
\* derivable status, and without a start time.
AdultOption == PriceOption("adults", None, "Adult", Some(150), Absent)

Catalogue(p) ==
  << Session(p, 1, STATUS_AVAILABLE, Some(5), "t1", <<AdultOption>>),
     Session(p, 2, STATUS_FREESALE, Some(0), "t2", <<>>),
     Session(p, 3, "SOLD_OUT", Some(0), "t3", <<AdultOption>>),
     Session(p, 4, None, Some(3), "t4", <<AdultOption>>),
     Session(p, 5, None, Some(0), "t5", <<>>),
     Session(p, 6, STATUS_AVAILABLE, Some(5), None, <<>>) >>

NoSession == Session(0, 0, None, Absent, None, <<>>)

\* The session lists a response for product p can carry: the request names a
\* time window, the response holds a run of at most MaxSessions consecutive
\* sessions of the catalogue.
SessionLists(p) ==
  { SubSeq(Catalogue(p), w[1], w[1] + w[2] - 1) :
      w \in { v \in (1..Len(Catalogue(p))) \X (0..MaxSessions) :
                v[1] + v[2] - 1 <= Len(Catalogue(p)) } }

\* The body of an availability response besides what MkRaw describes: the
\* shape ("null" no body, "primitive" a string, number or boolean, "array" the
\* list arr, "object"), the array-valued
\* fields it has, and, for an object without such a field, the object itself.
MkAvailRaw(http, rs, code, shape, has, list, self) ==
  [http |-> http, rs |-> rs, code |-> code, details |-> FALSE, shape |-> shape,
   has |-> has,
   sessions |-> IF "sessions" \in has THEN list ELSE <<>>,
   availability |-> IF "availability" \in has THEN list ELSE <<>>,
   data |-> IF "data" \in has THEN list ELSE <<>>,
   items |-> IF "items" \in has THEN list ELSE <<>>,
   arr |-> IF shape = "array" THEN list ELSE <<>>,
   self |-> self]

\* Upstream holds sessions and pickup points for the first MaxProducts
\* products; of any other product it answers with no session or an error.
Stocked(p) == p <= 100 + MaxProducts

AvailRaws(p) ==
  IF ~Stocked(p)
    THEN { MkAvailRaw("ok", "true", None, "object", {"sessions"}, <<>>, NoSession),
           MkAvailRaw("ok", "false", OtherErrorCode, "object", {}, <<>>, NoSession) }
  ELSE
  { MkAvailRaw("ok", "true", None, "object", {"sessions"}, l, NoSession) :
      l \in SessionLists(p) }
  \cup { MkAvailRaw("ok", None, None, "object", {}, <<>>, Catalogue(p)[1]),
         \* the bare array of the first two sessions
         MkAvailRaw("ok", None, None, "array", {}, SubSeq(Catalogue(p), 1, 2), NoSession),
         MkAvailRaw("ok", None, None, "null", {}, <<>>, NoSession),
         MkAvailRaw("ok", "false", ERROR_CODE_NO_ORDER_FOUND, "object", {}, <<>>, NoSession),
         MkAvailRaw("ok", "false", OtherErrorCode, "object", {}, <<>>, NoSession),
         MkAvailRaw("fail", None, None, "object", {}, <<>>, NoSession),
         MkAvailRaw("neterr", None, None, "null", {}, <<>>, NoSession) }

\* A variant that looks for the sessions before the requestStatus.
extractAvailabilityDataSessionsFirst(data) ==
  IF data.shape \in {"null", "primitive"} THEN <<>>
  ELSE IF data.shape = "array" THEN data.arr
  ELSE IF "sessions" \in data.has THEN data.sessions
  ELSE IF data.rs = "false" THEN <<>>
  ELSE IF "data" \in data.has THEN data.data
  ELSE IF "availability" \in data.has THEN data.availability
  ELSE IF "items" \in data.has THEN data.items
  ELSE IF data.rs = None THEN <<data.self>>
  ELSE <<>>

\* extractAvailabilityData(response.data): a primitive has none of the fields
\* and is no object.
extractAvailabilityData(data) ==
  IF data.shape \in {"null", "primitive"} THEN <<>>
  ELSE IF data.shape = "array" THEN data.arr
  ELSE IF data.rs = "false" THEN <<>>
  ELSE IF data.rs # None /\ "sessions" \in data.has THEN data.sessions
  ELSE IF data.rs # None /\ "availability" \in data.has THEN data.availability
  ELSE IF data.rs # None /\ "data" \in data.has THEN data.data
  ELSE IF data.rs # None /\ "items" \in data.has THEN data.items
  ELSE IF "data" \in data.has THEN data.data
  ELSE IF "availability" \in data.has THEN data.availability
  ELSE IF "sessions" \in data.has THEN data.sessions
  ELSE IF "items" \in data.has THEN data.items
  ELSE IF data.rs = None THEN <<data.self>>
  ELSE <<>>

\* A pickup point of product p.
PickupPoint(p) == [locationName |-> "Hotel", forProduct |-> p]

MkPickupRaw(http, rs, code, shape, pickupLocations) ==
  [http |-> http, rs |-> rs, code |-> code, details |-> FALSE, shape |-> shape,
   pickupLocations |-> pickupLocations]

PickupRaws(p) ==
  IF ~Stocked(p)
    THEN { MkPickupRaw("ok", None, None, "object", <<>>),
           MkPickupRaw("neterr", None, None, "null", <<>>) }
  ELSE
  { MkPickupRaw("ok", "true", None, "object", <<PickupPoint(p)>>),
    MkPickupRaw("ok", None, None, "object", <<>>),
    MkPickupRaw("ok", "false", OtherErrorCode, "object", <<>>),
    MkPickupRaw("neterr", None, None, "null", <<>>) }

\* -------------------------------------------- searchAvailability and calendar
AvailOps == {"searchAvailability", "availabilityCalendar"}

\* The payload of n products: distinct product ids, option ids and units.
ProductIdAt(i) == 100 + i
OptionIdAt(i) == 200 + i
UnitsAt(i) == <<Unit("adults", i, None)>>
\* A falsy id.
NoId == 0

WellFormedPayload(n) ==
  [productIds |-> [i \in 1..n |-> ProductIdAt(i)],
   optionIds |-> [i \in 1..n |-> OptionIdAt(i)],
   units |-> [i \in 1..n |-> UnitsAt(i)]]

\* The well-formed payloads and, of each, the ones with one defect: an option
\* id or a units entry short, a falsy product id, a falsy option id.
AvailPayloads ==
  { WellFormedPayload(n) : n \in 0..MaxProducts }
  \cup UNION { LET w == WellFormedPayload(n)
               IN  { [w EXCEPT !.optionIds = SubSeq(@, 1, n - 1)],
                     [w EXCEPT !.units = SubSeq(@, 1, n - 1)],
                     [w EXCEPT !.productIds[1] = NoId],
                     [w EXCEPT !.optionIds[n] = NoId] } : n \in 1..MaxProducts }

\* A variant without the check of the option ids.
AvailPreconditionNoOptionIdCheck(op, secret, p) ==
  IF op = "searchAvailability" /\ secret = None THEN "JWT secret should be set"
  ELSE IF Len(p.productIds) # Len(p.optionIds) THEN "mismatched productIds/options length"
  ELSE IF Len(p.optionIds) # Len(p.units) THEN "mismatched options/units length"
  ELSE IF \E i \in 1..Len(p.productIds) : p.productIds[i] = NoId
    THEN "some invalid productId(s)"
  ELSE None

\* A variant that checks the secret after the payload.
AvailPreconditionSecretLast(op, secret, p) ==
  IF Len(p.productIds) # Len(p.optionIds) THEN "mismatched productIds/options length"
  ELSE IF Len(p.optionIds) # Len(p.units) THEN "mismatched options/units length"
  ELSE IF \E i \in 1..Len(p.productIds) : p.productIds[i] = NoId
    THEN "some invalid productId(s)"
  ELSE IF \E i \in 1..Len(p.optionIds) : p.optionIds[i] = NoId
    THEN "some invalid optionId(s)"
  ELSE IF op = "searchAvailability" /\ secret = None THEN "JWT secret should be set"
  ELSE None

\* The assertions of the two operations, in order: the error of the first that
\* fails, None when all pass.
AvailPrecondition(op, secret, p) ==
  IF op = "searchAvailability" /\ secret = None THEN "JWT secret should be set"
  ELSE IF Len(p.productIds) # Len(p.optionIds) THEN "mismatched productIds/options length"
  ELSE IF Len(p.optionIds) # Len(p.units) THEN "mismatched options/units length"
  ELSE IF \E i \in 1..Len(p.productIds) : p.productIds[i] = NoId
    THEN "some invalid productId(s)"
  ELSE IF \E i \in 1..Len(p.optionIds) : p.optionIds[i] = NoId
    THEN "some invalid optionId(s)"
  ELSE None

\* A variant under which an empty array is falsy.
IsTruthyUnlessEmpty(avails) == avails # <<>>

\* Every JavaScript array is truthy, the empty one too.
IsTruthy(avails) == TRUE

\* availability.filter(Boolean)
FilterBoolean(lists) == SelectSeq(lists, IsTruthy)

\* A variant that takes a session without status for AVAILABLE whatever its
\* seat count.
DerivedStatusIgnoringSeats(avail) ==
  LET given == Or3(avail.status, avail.availabilityStatus, None)
  IN  IF given # None THEN given ELSE STATUS_AVAILABLE

\* The status the projection works with: the session's own, else AVAILABLE when
\* seats are available, else none.
DerivedStatus(avail) ==
  LET given == Or3(avail.status, avail.availabilityStatus, None)
  IN  IF given # None THEN given
      ELSE IF calculateSeatsAvailable(avail) > 0 THEN STATUS_AVAILABLE ELSE None

\* The mapper of the projection: null for a session that is not sellable, else
\* what translateAvailability was called with and what it returned.
NullProjection ==
  [isNull |-> TRUE, avail |-> NoSession, pickupPoints |-> <<>>,
   variableValues |-> [productId |-> NoId, optionId |-> NoId,
                       unitsWithQuantity |-> <<>>, jwtKey |-> None],
   result |-> [key |-> NoKey, dateTimeStart |-> None, vacancies |-> 0,
               available |-> FALSE, pricing |-> 0, pickupAvailable |-> FALSE,
               pickupPoints |-> <<>>]]

\* A variant that gives every product the pickup points of the first.
PickupPointsOfFirst(pickups, ix) == pickups[1]

\* pickupPointsByProduct[ix]
PickupPointsOf(pickups, ix) == pickups[ix]

ProjectSession(avail, ix, p, pickups, secret) ==
  LET seatsAvailable == calculateSeatsAvailable(avail)
      status == DerivedStatus(avail)
      startTimeLocal == Or3(avail.startTimeLocal, avail.startTime, avail.start)
      rootValue ==
        [status |-> status, availabilityStatus |-> avail.availabilityStatus,
         startTimeLocal |-> startTimeLocal, startTime |-> avail.startTime,
         start |-> avail.start, seatsAvailable |-> seatsAvailable,
         priceOptions |-> avail.priceOptions,
         pickupPoints |-> PickupPointsOf(pickups, ix), unitsWithQuantity |-> p.units[ix]]
      variableValues ==
        [productId |-> p.productIds[ix], optionId |-> p.optionIds[ix],
         unitsWithQuantity |-> p.units[ix], jwtKey |-> secret]
  IN  IF startTimeLocal = None \/ status = None THEN NullProjection
      ELSE IF status # STATUS_AVAILABLE /\ status # STATUS_FREESALE THEN NullProjection
      ELSE [isNull |-> FALSE, avail |-> avail, pickupPoints |-> PickupPointsOf(pickups, ix),
            variableValues |-> variableValues,
            result |-> translateAvailability(rootValue, variableValues)]

IsProjected(r) == ~r.isNull

\* A variant of the last filter that keeps the empty groups.
NonEmptyOrEmpty(group) == TRUE

\* avails.length > 0
NonEmpty(group) == group # <<>>

\* The two Promise.map over the collected availability and the clean-up after
\* them: per index the projected sessions without the nulls, then without the
\* empty groups.
ProjectAll(collected, p, pickups, secret) ==
  LET groups ==
        [ix \in 1..Len(collected) |->
           SelectSeq([k \in 1..Len(collected[ix]) |->
                        ProjectSession(collected[ix][k], ix, p, pickups, secret)],
                     IsProjected)]
  IN  SelectSeq(groups, NonEmpty)

\* A variant without the concurrency option: every index starts at once.
FirstBatchesUnbounded(n) == { 1..n }

\* What the history keeps of an upstream answer: the answers that are not a
\* plain success.
AnswerKept(raw) ==
  IF raw.http = "ok" /\ raw.rs \in {None, "true"} THEN NoRaw ELSE raw

\* The indexes Promise.map starts at once: at most CONCURRENCY of them.
FirstBatches(n) ==
  { S \in SUBSET (1..n) : Cardinality(S) = IF n < CONCURRENCY THEN n ELSE CONCURRENCY }

InitAvail ==
  /\ endpoint = ConstructedEndpoint(None)
  /\ jwtKey \in {None, "k1"}
  /\ tokenEndpoint \in TokenEndpoints
  /\ avOp \in AvailOps
  /\ avPayload \in AvailPayloads
  /\ avPc = "idle"
  /\ avQueued = {}
  /\ avInflight = {}
  /\ availability = <<>>
  /\ pickupPointsByProduct = <<>>
  /\ avOut = <<>>
  /\ avError = None
  /\ availCalls = 0
  /\ pickupCalls = 0
  /\ avRaw = <<>>
  /\ pkRaw = <<>>

\* The operation up to its first await: the assertions, validateEndpoint, then
\* the first availability requests. Without products it runs to its end.
AvailCall ==
  /\ avPc = "idle"
  /\ LET n == Len(avPayload.productIds)
         failed == AvailPrecondition(avOp, jwtKey, avPayload)
     IN  IF failed # None
           THEN /\ avPc' = "rejected"
                /\ avError' = failed
                /\ UNCHANGED <<avQueued, avInflight, availability,
                               pickupPointsByProduct, availCalls, avRaw, pkRaw>>
         ELSE IF validateEndpoint(endpoint, tokenEndpoint).threw
           THEN /\ avPc' = "rejected"
                /\ avError' = "Invalid endpoint URL"
                /\ UNCHANGED <<avQueued, avInflight, availability,
                               pickupPointsByProduct, availCalls, avRaw, pkRaw>>
         ELSE /\ avPc' = IF n = 0 THEN "resolved" ELSE "fetch"
              /\ \E S \in FirstBatches(n) :
                   /\ avInflight' = S
                   /\ avQueued' = (1..n) \ S
                   /\ availCalls' = availCalls + Cardinality(S)
              /\ availability' = [i \in 1..n |-> <<>>]
              /\ pickupPointsByProduct' = [i \in 1..n |-> <<>>]
              /\ avRaw' = [i \in 1..n |-> NoRaw]
              /\ pkRaw' = [i \in 1..n |-> NoRaw]
              /\ UNCHANGED avError
  /\ UNCHANGED <<avOp, avPayload, avOut, pickupCalls>>
  /\ UNCHANGED <<envVars, searchVars, bookVars, tokenVars, tbVars, veVars, exVars, csVars, axVars, instVars>>

\* The availability request of index i settles. A failure rejects the
\* operation; a response is extracted and stored at i, the next queued request
\* starts, and after the last one the pickup requests start.
AvailSettle(i) ==
  /\ avPc = "fetch"
  /\ i \in avInflight
  /\ \E raw \in AvailRaws(avPayload.productIds[i]) :
       LET a == PluginAxios(raw)
           n == Len(avPayload.productIds)
       IN  /\ avRaw' = [avRaw EXCEPT ![i] = AnswerKept(raw)]
           /\ IF ~a.returned
                 THEN /\ avPc' = "rejected"
                      /\ avError' = "upstream error"
                      /\ avInflight' = avInflight \ {i}
                      /\ UNCHANGED <<avQueued, availability, availCalls, pickupCalls>>
               ELSE /\ availability' =
                         [availability EXCEPT ![i] = extractAvailabilityData(a.response)]
                    /\ UNCHANGED avError
                    /\ IF avQueued # {}
                         THEN /\ \E q \in avQueued :
                                   /\ avQueued' = avQueued \ {q}
                                   /\ avInflight' = (avInflight \ {i}) \cup {q}
                              /\ availCalls' = availCalls + 1
                              /\ UNCHANGED <<avPc, pickupCalls>>
                       ELSE IF avInflight # {i}
                         THEN /\ avInflight' = avInflight \ {i}
                              /\ UNCHANGED <<avPc, avQueued, availCalls, pickupCalls>>
                       ELSE /\ avPc' = "pickups"
                            /\ \E S \in FirstBatches(n) :
                                 /\ avInflight' = S
                                 /\ avQueued' = (1..n) \ S
                                 /\ pickupCalls' = pickupCalls + Cardinality(S)
                            /\ UNCHANGED availCalls
  /\ UNCHANGED <<avOp, avPayload, pickupPointsByProduct, avOut, pkRaw>>
  /\ UNCHANGED <<envVars, searchVars, bookVars, tokenVars, tbVars, veVars, exVars, csVars, axVars, instVars>>

\* The pickup request of index i settles. After the last one the sessions are
\* projected and the operation resolves.
PickupSettle(i) ==
  /\ avPc = "pickups"
  /\ i \in avInflight
  /\ \E raw \in PickupRaws(avPayload.productIds[i]) :
       LET a == PluginAxios(raw)
           \* R.pathOr([], ['data', 'pickupLocations'], response)
           points == IF a.response.shape = "null" THEN <<>>
                     ELSE a.response.pickupLocations
           fetched == [pickupPointsByProduct EXCEPT ![i] = points]
       IN  /\ pkRaw' = [pkRaw EXCEPT ![i] = AnswerKept(raw)]
           /\ IF ~a.returned
                 THEN /\ avPc' = "rejected"
                      /\ avError' = "upstream error"
                      /\ avInflight' = avInflight \ {i}
                      /\ UNCHANGED <<avQueued, pickupPointsByProduct, pickupCalls, avOut>>
               ELSE /\ pickupPointsByProduct' = fetched
                    /\ UNCHANGED avError
                    /\ IF avQueued # {}
                         THEN /\ \E q \in avQueued :
                                   /\ avQueued' = avQueued \ {q}
                                   /\ avInflight' = (avInflight \ {i}) \cup {q}
                              /\ pickupCalls' = pickupCalls + 1
                              /\ UNCHANGED <<avPc, avOut>>
                       ELSE IF avInflight # {i}
                         THEN /\ avInflight' = avInflight \ {i}
                              /\ UNCHANGED <<avPc, avQueued, pickupCalls, avOut>>
                       ELSE /\ avPc' = "resolved"
                            /\ avInflight' = {}
                            /\ avOut' = ProjectAll(FilterBoolean(availability), avPayload,
                                                   fetched, jwtKey)
                            /\ UNCHANGED <<avQueued, pickupCalls>>
  /\ UNCHANGED <<avOp, avPayload, availability, availCalls, avRaw>>
  /\ UNCHANGED <<envVars, searchVars, bookVars, tokenVars, tbVars, veVars, exVars, csVars, axVars, instVars>>

\* A request still in flight when the operation rejected settles: nothing
\* reads its outcome, and Promise.map starts no further request.
LateSettle(i) ==
  /\ avPc = "rejected"
  /\ i \in avInflight
  /\ avInflight' = avInflight \ {i}
  /\ UNCHANGED <<avOp, avPayload, avPc, avQueued, availability,
                 pickupPointsByProduct, avOut, avError, availCalls, pickupCalls,
                 avRaw, pkRaw>>
  /\ UNCHANGED <<envVars, searchVars, bookVars, tokenVars, tbVars, veVars, exVars, csVars, axVars, instVars>>

NextAvail ==
  \/ AvailCall
  \/ \E i \in 1..Len(avPayload.productIds) : AvailSettle(i)
  \/ \E i \in 1..Len(avPayload.productIds) : PickupSettle(i)
  \/ \E i \in 1..Len(avPayload.productIds) : LateSettle(i)


\* ------------------------------------- payloads beyond the concurrency cap
\* A payload of n products upstream holds nothing for.
FanOutPayload(n) ==
  [productIds |-> [i \in 1..n |-> ProductIdAt(MaxProducts + i)],
   optionIds |-> [i \in 1..n |-> OptionIdAt(i)],
   units |-> [i \in 1..n |-> UnitsAt(i)]]

InitFanOut ==
  /\ endpoint = ConstructedEndpoint(None)
  /\ jwtKey = "k1"
  /\ tokenEndpoint = None
  /\ avOp \in AvailOps
  /\ \E n \in 1..MaxFanOut : avPayload = FanOutPayload(n)
  /\ avPc = "idle"
  /\ avQueued = {}
  /\ avInflight = {}
  /\ availability = <<>>
  /\ pickupPointsByProduct = <<>>
  /\ avOut = <<>>
  /\ avError = None
  /\ availCalls = 0
  /\ pickupCalls = 0
  /\ avRaw = <<>>
  /\ pkRaw = <<>>

\* ---------------------------------------- extractAvailabilityData on its own
\* The payloads extractAvailabilityData can be given: nothing, a primitive, an
\* array of sessions, or an object with or without a requestStatus and with
\* any of the array-valued fields.
\* The arrays one field of a body can hold, told apart from those of the other
\* fields by the product p of their sessions: empty, or the first sessions of
\* the catalogue.
FieldLists(p) == { SubSeq(Catalogue(p), 1, n) : n \in 0..MaxSessions }

\* The body raw with its own array in each array-valued field it has.
WithFields(raw, s, a, d, i) ==
  [raw EXCEPT !.sessions = IF "sessions" \in raw.has THEN s ELSE <<>>,
              !.availability = IF "availability" \in raw.has THEN a ELSE <<>>,
              !.data = IF "data" \in raw.has THEN d ELSE <<>>,
              !.items = IF "items" \in raw.has THEN i ELSE <<>>]

ExtractPayloads ==
  { MkAvailRaw("ok", None, None, sh, {}, <<>>, NoSession) : sh \in {"null", "primitive"} }
  \cup { WithFields(MkAvailRaw("ok", rs, None, "object", has, <<>>,
                               Catalogue(ProductIdAt(1))[1]), s, a, d, i) :
           rs \in {None, "true", "false"},
           has \in SUBSET {"sessions", "availability", "data", "items"},
           s \in FieldLists(ProductIdAt(1)), a \in FieldLists(ProductIdAt(2)),
           d \in FieldLists(ProductIdAt(3)), i \in FieldLists(ProductIdAt(4)) }
  \cup { MkAvailRaw("ok", None, None, "array", {}, l, NoSession) :
           l \in SessionLists(ProductIdAt(1)) }
  \cup { MkAvailRaw("ok", rs, None, "object", has, l, Catalogue(ProductIdAt(1))[1]) :
           rs \in {None, "true", "false"},
           has \in SUBSET {"sessions", "availability", "data", "items"},
           l \in SessionLists(ProductIdAt(1)) }

InitExtract ==
  /\ endpoint = ConstructedEndpoint(None)
  /\ jwtKey = None
  /\ tokenEndpoint = None
  /\ exData \in ExtractPayloads
  /\ exPc = "idle"
  /\ exOut = <<>>

\* plugin.extractAvailabilityData(exData)
ExtractAvailabilityData ==
  /\ exPc = "idle"
  /\ exPc' = "returned"
  /\ exOut' = extractAvailabilityData(exData)
  /\ UNCHANGED exData
  /\ UNCHANGED <<envVars, searchVars, availVars, bookVars, tokenVars, tbVars, veVars, csVars, axVars, instVars>>

NextExtract == ExtractAvailabilityData

\* ---------------------------------------- calculateSeatsAvailable on its own
Undefined == JsValue("undefined", "", 0)
Null == JsValue("null", "", 0)
NaN == JsValue("number", "NaN", 0)

\* Number(v): not-a-number (nan), or the number n.
ToNumber(v) ==
  CASE v.type = "undefined" -> [nan |-> TRUE, n |-> 0]
    [] v.type = "null" -> [nan |-> FALSE, n |-> 0]
    [] v.type = "number" -> [nan |-> v.str = "NaN", n |-> v.num]
    [] v.type = "boolean" -> [nan |-> FALSE, n |-> IF v.str = "true" THEN 1 ELSE 0]
    [] v.type = "string" /\ v.str = "" -> [nan |-> FALSE, n |-> 0]
    [] v.type = "string" /\ v.str = "10" -> [nan |-> FALSE, n |-> 10]
    [] v.type = "array" -> [nan |-> FALSE, n |-> 0]
    [] OTHER -> [nan |-> TRUE, n |-> 0]

\* The argument of calculateSeatsAvailable: undefined, null, or an object with
\* a value, possibly undefined, in each of the five seat fields.
SeatRecord(type, seatsAvailable, available, vacancies, availableSeats, remainingSeats) ==
  [type |-> type, seatsAvailable |-> seatsAvailable, available |-> available,
   vacancies |-> vacancies, availableSeats |-> availableSeats,
   remainingSeats |-> remainingSeats]

\* The values a seat field can hold: undefined, null, a negative number, zero,
\* a positive number, NaN, a numeric string and a string that is no number.
SeatValues ==
  { Undefined, Null, JsNumber(-5), JsNumber(0), JsNumber(7), NaN,
    JsString("10"), JsString("abc") }

SeatRecords ==
  { SeatRecord(t, Undefined, Undefined, Undefined, Undefined, Undefined) :
      t \in {"undefined", "null"} }
  \cup { SeatRecord("object", a, b, c, d, e) :
           a \in SeatValues, b \in SeatValues, c \in SeatValues,
           d \in SeatValues, e \in SeatValues }

\* A variant that takes the first truthy field instead of the first defined.
calculateSeatsAvailableFirstTruthy(avail) ==
  IF avail.type # "object" THEN 0
  ELSE LET seats == IF Truthy(avail.seatsAvailable) THEN avail.seatsAvailable
                    ELSE IF Truthy(avail.available) THEN avail.available
                    ELSE IF Truthy(avail.vacancies) THEN avail.vacancies
                    ELSE IF Truthy(avail.availableSeats) THEN avail.availableSeats
                    ELSE IF Truthy(avail.remainingSeats) THEN avail.remainingSeats
                    ELSE JsNumber(0)
           number == ToNumber(seats)
       IN  IF number.nan \/ number.n = 0 THEN 0 ELSE number.n

\* calculateSeatsAvailable on any record: Number(seats) || 0 of the first field
\* that is not undefined.
calculateSeatsAvailableOfValue(avail) ==
  IF avail.type # "object" THEN 0
  ELSE LET seats == IF avail.seatsAvailable # Undefined THEN avail.seatsAvailable
                    ELSE IF avail.available # Undefined THEN avail.available
                    ELSE IF avail.vacancies # Undefined THEN avail.vacancies
                    ELSE IF avail.availableSeats # Undefined THEN avail.availableSeats
                    ELSE IF avail.remainingSeats # Undefined THEN avail.remainingSeats
                    ELSE JsNumber(0)
           number == ToNumber(seats)
       IN  IF number.nan \/ number.n = 0 THEN 0 ELSE number.n

InitSeats ==
  /\ endpoint = ConstructedEndpoint(None)
  /\ jwtKey = None
  /\ tokenEndpoint = None
  /\ csAvail \in SeatRecords
  /\ csPc = "idle"
  /\ csOut = 0

\* plugin.calculateSeatsAvailable(csAvail)
CalculateSeatsAvailable ==
  /\ csPc = "idle"
  /\ csPc' = "returned"
  /\ csOut' = calculateSeatsAvailableOfValue(csAvail)
  /\ UNCHANGED csAvail
  /\ UNCHANGED <<envVars, searchVars, availVars, bookVars, tokenVars, tbVars, veVars, exVars, axVars, instVars>>

NextSeats == CalculateSeatsAvailable

\* -------------------------------------------------------------- createBooking
\* The sessions a caller may have searched: sellable by status, sellable by
\* seat count alone, sold out; each with one of three price option lists.
ChildOption == PriceOption(None, "CHILD", "Child", Absent, Some(75))

PriceOptionLists == { <<>>, <<AdultOption>>, <<ChildOption, AdultOption>> }

BookedProduct == ProductIdAt(1)

BookSessions ==
  { Session(BookedProduct, 1, st[1], st[2], "t1", po) :
      st \in { <<STATUS_AVAILABLE, Some(5)>>, <<None, Some(3)>>, <<"SOLD_OUT", Some(0)>> },
      po \in PriceOptionLists }

\* The units a caller may request: a unit matching a price option, one matching
\* in another letter case, one with quantity 0, one without unitId, and one
\* that matches no option.
UnitCatalogue ==
  << Unit("adults", 2, None),
     Unit("child", 1, None),
     Unit("ADULTS", 0, None),
     Unit(None, 1, "Infant"),
     Unit("senior", 3, None) >>

\* The requested unit lists: runs of at most MaxUnits consecutive units.
UnitLists ==
  { SubSeq(UnitCatalogue, w[1], w[1] + w[2] - 1) :
      w \in { v \in (1..Len(UnitCatalogue)) \X (0..MaxUnits) :
                v[1] + v[2] - 1 <= Len(UnitCatalogue) } }

\* How the caller came by the key it presents: minted by this plugin's
\* projection, minted with another secret, altered after signing, not a token
\* at all, or absent.
KeyOrigins == {"minted", "foreign", "altered", "malformed", "absent"}

ForeignSecret == "k2"

MalformedKey == [kind |-> "garbage", payload |-> EmptyPayload,
                 mac |-> [over |-> EmptyPayload, secret |-> None]]

\* The key the projection of searchAvailability mints for a session, with the
\* units the caller requested, on a plugin whose secret is secret: NoKey when
\* the session is not sellable.
MintedKey(session, units, secret) ==
  ProjectSession(session, 1,
                 [productIds |-> <<BookedProduct>>, optionIds |-> <<OptionIdAt(1)>>,
                  units |-> <<units>>],
                 <<(<<>>)>>, secret).result.key

\* The key a caller presents.
PresentedKey(origin, session, units, secret) ==
  LET own == MintedKey(session, units, secret)
  IN  CASE origin = "minted" -> own
        [] origin = "foreign" -> MintedKey(session, units, ForeignSecret)
        [] origin = "altered" ->
             IF own.kind = "jwt"
               THEN [own EXCEPT !.payload.totalAmount = 0,
                                !.payload.items[1].productCode = ProductIdAt(2)]
               ELSE MalformedKey
        [] origin = "malformed" -> MalformedKey
        [] OTHER -> NoKey

Holder(name, surname, emailAddress) ==
  [name |-> name, surname |-> surname, emailAddress |-> emailAddress]

Holders ==
  { Holder(n, s, "a@b.c") : n \in {None, "John"}, s \in {None, "Doe"} }
    \cup { Holder("John", "Doe", "Collect") }

\* A payment amount as the caller gives it: a number, or something else
\* ("missing", "string", "nan").
Amount(type, n) == [type |-> type, n |-> n]

Payment(amount, type, recipient, label) ==
  [amount |-> amount, type |-> type, recipient |-> recipient, label |-> label]

\* payload.payments: absent, a value that is not an array, or an array.
AbsentPayments == [kind |-> "absent", list |-> <<>>]
NotAnArray == [kind |-> "object", list |-> <<>>]
ArrayOf(list) == [kind |-> "array", list |-> list]

PaymentLists ==
  { AbsentPayments, ArrayOf(<<Payment(Amount("number", 100), None, None, None)>>) }

Participant(firstName, lastName) == [firstName |-> firstName, lastName |-> lastName]

ParticipantLists == { <<>>, <<Participant("Ann", "Lee")>> }

PAYMENT_TYPE_CASH == "CASH"
PAYMENT_RECIPIENT_SUPPLIER == "SUPPLIER"
SKIP_EMAIL_VALUE == "collect"

\* The quantities of a key item, each as {optionLabel, value}.
NormalizeQuantities(quantities) ==
  [i \in 1..Len(quantities) |->
     IF quantities[i].optionLabel # None
       THEN [optionLabel |-> quantities[i].optionLabel, value |-> quantities[i].value]
       ELSE [optionLabel |-> "Quantity", value |-> quantities[i].value]]

RECURSIVE TotalQuantity(_)
TotalQuantity(quantities) ==
  IF quantities = <<>> THEN 0
  ELSE Head(quantities).value + TotalQuantity(Tail(quantities))

\* The participants of one item: the supplied ones, padded with the holder up
\* to max(total quantity, 1); each as a list of fields.
ParticipantFields(participant) ==
  [fields |->
     (IF participant.firstName # None
        THEN <<[label |-> "First Name", value |-> participant.firstName]>> ELSE <<>>)
     \o (IF participant.lastName # None
           THEN <<[label |-> "Last Name", value |-> participant.lastName]>> ELSE <<>>)]

\* A variant that pads nothing: the supplied participants when there are any.
ItemParticipantsUnpadded(quantities, supplied, h) ==
  LET totalQuantity == TotalQuantity(quantities)
      participantTarget == IF totalQuantity > 1 THEN totalQuantity ELSE 1
      participantsToAdd ==
        IF supplied = <<>>
          THEN [i \in 1..participantTarget |-> Participant(h.name, h.surname)]
          ELSE supplied
  IN  [i \in 1..Len(participantsToAdd) |-> ParticipantFields(participantsToAdd[i])]

ItemParticipants(quantities, supplied, h) ==
  LET totalQuantity == TotalQuantity(quantities)
      participantTarget == IF totalQuantity > 1 THEN totalQuantity ELSE 1
      defaultParticipant == Participant(h.name, h.surname)
      participantsToAdd ==
        IF supplied = <<>>
          THEN [i \in 1..participantTarget |-> defaultParticipant]
        ELSE IF Len(supplied) < participantTarget
          THEN supplied \o [i \in 1..(participantTarget - Len(supplied)) |-> defaultParticipant]
        ELSE supplied
  IN  [i \in 1..Len(participantsToAdd) |-> ParticipantFields(participantsToAdd[i])]

\* A variant that keeps a negative number.
NormalizeAmountKeepingNegative(amount) ==
  IF amount.type # "number" THEN 0 ELSE amount.n

\* payment.amount || 0, then 0 unless it is a number that is not negative.
NormalizeAmount(amount) ==
  IF amount.type # "number" \/ amount.n < 0 THEN 0 ELSE amount.n

\* The payments of the request: the supplied ones with their defaults, or one
\* default payment of the key's total amount.
RequestPayments(supplied, totalAmount) ==
  IF supplied.kind = "array" /\ supplied.list # <<>>
    THEN [i \in 1..Len(supplied.list) |->
            Payment(NormalizeAmount(supplied.list[i].amount),
                    Or3(supplied.list[i].type, PAYMENT_TYPE_CASH, None),
                    Or3(supplied.list[i].recipient, PAYMENT_RECIPIENT_SUPPLIER, None),
                    Or3(supplied.list[i].label, "Payment", None))]
    ELSE <<Payment(IF totalAmount < 0 THEN 0 ELSE totalAmount,
                   PAYMENT_TYPE_CASH, PAYMENT_RECIPIENT_SUPPLIER, "Payment for booking")>>

\* bookingData: the request createBooking posts. The optional pass-through
\* fields (comments, createdBy, pickupLocation, resellerReference, resellerId,
\* phone) are left out.
BookingData(key, h, suppliedParticipants, suppliedPayments) ==
  [customer |->
     [firstName |-> h.name, lastName |-> h.surname,
      email |-> IF h.emailAddress # None /\ ToLowerCase(h.emailAddress) = SKIP_EMAIL_VALUE
                  THEN None ELSE h.emailAddress],
   items |->
     [i \in 1..Len(key.items) |->
        LET quantities == NormalizeQuantities(key.items[i].quantities)
        IN  [productCode |-> key.items[i].productCode,
             startTimeLocal |-> key.items[i].startTimeLocal,
             quantities |-> quantities,
             participants |-> ItemParticipants(quantities, suppliedParticipants, h)]],
   payments |-> RequestPayments(suppliedPayments, key.totalAmount)]

NoBookingData ==
  [customer |-> [firstName |-> None, lastName |-> None, email |-> None],
   items |-> <<>>, payments |-> <<>>]

\* A variant that checks the holder before the key.
BookingPreconditionHolderFirst(key, h) ==
  IF h.name = None THEN "a holder's first name is required"
  ELSE IF h.surname = None THEN "a holder's surname is required"
  ELSE IF key.kind = None THEN "an availability code is required !"
  ELSE None

\* The assertions of createBooking, in order: the error of the first that
\* fails, None when all pass.
BookingPrecondition(key, h) ==
  IF key.kind = None THEN "an availability code is required !"
  ELSE IF h.name = None THEN "a holder's first name is required"
  ELSE IF h.surname = None THEN "a holder's surname is required"
  ELSE None

\* What upstream answers to POST /bookings.
BookingRaws ==
  { MkRaw("ok", None, None, FALSE, "object", <<>>, [orderNumber |-> "A", id |-> None]),
    MkRaw("ok", "false", OtherErrorCode, FALSE, "object", <<>>, EmptyObject),
    MkRaw("neterr", None, None, FALSE, "null", <<>>, EmptyObject) }

InitBooking ==
  /\ endpoint = ConstructedEndpoint(None)
  /\ jwtKey \in {None, "k1"}
  /\ tokenEndpoint \in TokenEndpoints
  /\ bkSource \in [origin : KeyOrigins, session : BookSessions, units : UnitLists]
  /\ availabilityKey =
       PresentedKey(bkSource.origin, bkSource.session, bkSource.units, jwtKey)
  /\ holder \in Holders
  /\ participants \in ParticipantLists
  /\ payments \in PaymentLists
  /\ bkPc = "idle"
  /\ dataFromAvailKey = EmptyPayload
  /\ bookingData = NoBookingData
  /\ bkError = None
  /\ bkCalls = 0

\* createBooking up to its await: the assertions, validateEndpoint, the
\* verification of the key, the request, and the POST it issues.
CreateBookingCall ==
  /\ bkPc = "idle"
  /\ LET failed == BookingPrecondition(availabilityKey, holder)
         verified == JwtVerify(availabilityKey, jwtKey)
     IN  IF failed # None
           THEN /\ bkPc' = "rejected"
                /\ bkError' = failed
                /\ UNCHANGED <<dataFromAvailKey, bookingData, bkCalls>>
         ELSE IF validateEndpoint(endpoint, tokenEndpoint).threw
           THEN /\ bkPc' = "rejected"
                /\ bkError' = "Invalid endpoint URL"
                /\ UNCHANGED <<dataFromAvailKey, bookingData, bkCalls>>
         ELSE IF verified.threw
           THEN /\ bkPc' = "rejected"
                /\ bkError' = "jwt verification failed"
                /\ UNCHANGED <<dataFromAvailKey, bookingData, bkCalls>>
         ELSE /\ bkPc' = "posting"
              /\ dataFromAvailKey' = verified.payload
              /\ bookingData' = BookingData(verified.payload, holder, participants, payments)
              /\ bkCalls' = bkCalls + 1
              /\ UNCHANGED bkError
  /\ UNCHANGED <<bkSource, availabilityKey, holder, participants, payments>>
  /\ UNCHANGED <<envVars, searchVars, availVars, tokenVars, tbVars, veVars, exVars, csVars, axVars, instVars>>

\* The POST settles: the booking is projected, or the error propagates.
CreateBookingSettle ==
  /\ bkPc = "posting"
  /\ \E raw \in BookingRaws :
       IF PluginAxios(raw).returned
         THEN bkPc' = "resolved" /\ UNCHANGED bkError
         ELSE bkPc' = "rejected" /\ bkError' = "upstream error"
  /\ UNCHANGED <<bkSource, availabilityKey, holder, participants, payments,
                 dataFromAvailKey, bookingData, bkCalls>>
  /\ UNCHANGED <<envVars, searchVars, availVars, tokenVars, tbVars, veVars, exVars, csVars, axVars, instVars>>

NextBooking == CreateBookingCall \/ CreateBookingSettle



\* ------------------------------------------- createBooking: the request built
\* A price option with a negative price: the key's total amount is negative.
NegativeOption == PriceOption("adults", None, "Adult", Some(-20), Absent)

RequestSessions ==
  { Session(BookedProduct, 1, STATUS_AVAILABLE, Some(5), "t1", po) :
      po \in { <<AdultOption, ChildOption>>, <<NegativeOption>> } }

\* The requested units: none, q adults, or q adults and a child.
RequestUnitLists ==
  { <<>> }
  \cup { <<Unit("adults", q, None)>> : q \in 0..MaxSeats }
  \cup { <<Unit("adults", q, None), Unit("child", 1, None)>> : q \in 0..MaxSeats }

\* The participants a caller supplies.
RequestParticipants == { Participant("Ann", "Lee"), Participant("Bob", None) }

\* The payments a caller supplies: an amount that is a number (positive, 0,
\* negative), missing, a string or NaN, without the other fields, or a payment
\* with every field.
RequestPaymentKinds ==
  { Payment(a, None, None, None) :
      a \in { Amount("number", 100), Amount("number", 0), Amount("number", -5),
              Amount("missing", 0), Amount("string", 0), Amount("nan", 0) } }
  \cup { Payment(Amount("number", 40), "CREDITCARD", "RESELLER", "Deposit") }

RequestPaymentValues ==
  { AbsentPayments, NotAnArray }
  \cup { ArrayOf(l) : l \in SeqsUpTo(RequestPaymentKinds, MaxPayments) }

\* createBooking with a key this plugin minted and a complete holder, and any
\* participants and payments.
InitBookingRequest ==
  /\ endpoint = ConstructedEndpoint(None)
  /\ jwtKey = "k1"
  /\ tokenEndpoint = None
  /\ bkSource \in [origin : {"minted"}, session : RequestSessions, units : RequestUnitLists]
  /\ availabilityKey =
       PresentedKey(bkSource.origin, bkSource.session, bkSource.units, jwtKey)
  /\ holder = Holder("John", "Doe", "a@b.c")
  /\ participants \in SeqsUpTo(RequestParticipants, MaxParticipants)
  /\ payments \in RequestPaymentValues
  /\ bkPc = "idle"
  /\ dataFromAvailKey = EmptyPayload
  /\ bookingData = NoBookingData
  /\ bkError = None
  /\ bkCalls = 0


\* ----------------------------------------------------------- translateBooking
STATUS_CANCELLED == "CANCELLED"

\* The statuses upstream gives a booking (None: no status field).
BookingStatuses == {STATUS_CANCELLED, "CONFIRMED", "PROCESSING", "cancelled", None}

\* The cancellable field upstream gives: true, false, or none.
UpstreamCancellable == {"true", "false", None}

\* The operations that project booking records.
ProjectingOps == {"createBooking", "cancelBooking", "searchBooking"}

\* What translateBooking is given: a booking, or a booking wrapped as
\* {requestStatus, booking}.
RootValues ==
  [wrapped : BOOLEAN,
   booking : [orderNumber : {"A"}, status : BookingStatuses,
              cancellable : UpstreamCancellable]]

\* A variant that passes the upstream field on.
Query_cancellableUpstream(root) == root.cancellable

\* resolvers.Query.cancellable
Query_cancellable(root) ==
  IF root.status = STATUS_CANCELLED THEN "false" ELSE root.cancellable

\* translateBooking: the wrapper is removed, then the resolvers project the
\* booking; of the projected fields the model keeps id, status, cancellable.
translateBooking(rootValue) ==
  LET booking == rootValue.booking
  IN  [id |-> booking.orderNumber,
       status |-> booking.status,
       cancellable |-> Query_cancellable(booking)]

InitProjection ==
  /\ endpoint = ConstructedEndpoint(None)
  /\ jwtKey = None
  /\ tokenEndpoint = None
  /\ tbOp \in ProjectingOps
  /\ tbRootValue \in RootValues
  /\ tbPc = "idle"
  /\ tbData = [id |-> None, status |-> None, cancellable |-> None]

\* The operation projects the record upstream returned.
TranslateBooking ==
  /\ tbPc = "idle"
  /\ tbPc' = "done"
  /\ tbData' = translateBooking(tbRootValue)
  /\ UNCHANGED <<tbOp, tbRootValue>>
  /\ UNCHANGED <<envVars, searchVars, availVars, bookVars, tokenVars, veVars, exVars, csVars, axVars, instVars>>

NextProjection == TranslateBooking

\* ------------------------------------------------------------- validateToken
ApiKeys == {"key1", "key2"}

\* getHeaders({apiKey})
getHeaders(key) == [apiKey |-> key, contentType |-> "application/json"]

\* No headers object.
NoHeaders == [apiKey |-> None, contentType |-> None]

\* An axios request config: method, url, headers.
Request(method, url, headers) == [method |-> method, url |-> url, headers |-> headers]

\* axiosSafeRequest: method and url picked, the apiKey header omitted.
axiosSafeRequest(request) ==
  Request(request.method, request.url, [request.headers EXCEPT !.apiKey = None])

\* axiosSafeResponse: response.request is the transport's request object,
\* which has a method but neither url nor headers.
axiosSafeResponse(request) ==
  axiosSafeRequest(Request(request.method, None, NoHeaders))

\* An emitted event: its name and the request part of its payload.
Event(name, request) == [name |-> name, request |-> request]

\* The products a listing can carry.
UpstreamProducts == { [orderNumber |-> None, id |-> "P1"], [orderNumber |-> None, id |-> "P2"] }

\* What axios does with GET /products: a listing {products: list}, a body
\* without products, no body, an API failure, a failed response, no response.
TokenRaws ==
  { MkRaw("ok", rs, None, FALSE, "products", l, EmptyObject) :
      rs \in {None, "true"}, l \in SeqsUpTo(UpstreamProducts, MaxListed) }
  \cup { MkRaw("ok", None, None, FALSE, "object", <<>>, EmptyObject) }
  \cup OkNullRaws \cup OkFailRaws \cup HttpFailRaws \cup NetErrRaws

\* The endpoints a token can carry.
ValidateTokenEndpoints == {None, "", "not-a-url", "https://x.com"}

InitToken ==
  /\ endpoint = ConstructedEndpoint(None)
  /\ jwtKey = None
  /\ tokenEndpoint \in ValidateTokenEndpoints
  /\ apiKey \in ApiKeys
  /\ events \in BOOLEAN
  /\ vtPc = "idle"
  /\ vtRaw = NoRaw
  /\ vtResult = None
  /\ vtError = None
  /\ vtCalls = 0
  /\ emitted = <<>>

\* The request validateToken sends.
ProductsRequest ==
  Request("get", "/products", getHeaders(apiKey))

\* validateToken up to its await: validateEndpoint, outside the try block,
\* then the request, which the request interceptor reports.
ValidateTokenCall ==
  /\ vtPc = "idle"
  /\ IF validateEndpoint(endpoint, tokenEndpoint).threw
       THEN /\ vtPc' = "rejected"
            /\ vtError' = "Invalid endpoint URL"
            /\ UNCHANGED <<vtCalls, emitted>>
       ELSE /\ vtPc' = "pending"
            /\ vtCalls' = vtCalls + 1
            /\ emitted' = IF events
                            THEN Append(emitted,
                                        Event("axios.request", axiosSafeRequest(ProductsRequest)))
                            ELSE emitted
            /\ UNCHANGED vtError
  /\ UNCHANGED <<apiKey, events, vtRaw, vtResult>>
  /\ UNCHANGED <<envVars, searchVars, availVars, bookVars, tbVars, veVars, exVars, csVars, axVars, instVars>>

\* The products request settles: the response interceptor reports a
\* response, the wrapper reports an error, and validateToken resolves to
\* Array.isArray(products) && products.length > 0, or to false in its catch.
ValidateTokenSettle ==
  /\ vtPc = "pending"
  /\ \E raw \in TokenRaws :
       LET a == PluginAxios(raw)
           afterResponse ==
             IF events /\ raw.http = "ok"
               THEN Append(emitted, Event("axios.response", axiosSafeResponse(ProductsRequest)))
               ELSE emitted
       IN  /\ vtRaw' = raw
           /\ emitted' = IF events /\ a.errorEvent
                           THEN Append(afterResponse, Event("axios.error", ProductsRequest))
                           ELSE afterResponse
           /\ vtResult' = IF a.returned /\ a.response.shape = "products"
                                /\ a.response.list # <<>>
                           THEN "true" ELSE "false"
  /\ vtPc' = "resolved"
  /\ UNCHANGED <<apiKey, events, vtError, vtCalls>>
  /\ UNCHANGED <<envVars, searchVars, availVars, bookVars, tbVars, veVars, exVars, csVars, axVars, instVars>>

NextToken == ValidateTokenCall \/ ValidateTokenSettle

\* ------------------------------------------------------------ specifications
\* No searchBooking invocation.
IdleSearch ==
  /\ sbPayload = [bookingId |-> None, travelDateStart |-> None,
                  travelDateEnd |-> None, dateFormat |-> None]
  /\ sbPc = None
  /\ sbInflight = {}
  /\ sbRaw = [i \in Strategies |-> NoRaw]
  /\ results = [i \in Strategies |-> NullResult]
  /\ hadNonNotFoundError = FALSE
  /\ bookings = <<>>
  /\ sbError = None
  /\ sbCalls = 0

\* No availability invocation.
IdleAvail ==
  /\ avOp = None
  /\ avPayload = [productIds |-> <<>>, optionIds |-> <<>>, units |-> <<>>]
  /\ avPc = None
  /\ avQueued = {}
  /\ avInflight = {}
  /\ availability = <<>>
  /\ pickupPointsByProduct = <<>>
  /\ avOut = <<>>
  /\ avError = None
  /\ availCalls = 0
  /\ pickupCalls = 0
  /\ avRaw = <<>>
  /\ pkRaw = <<>>

\* No createBooking invocation.
\* The sessions and unit lists a quote is made for: every status and
\* price-option list (none, one, two, a negative price), and every unit list
\* (none, matching, in another letter case, quantity 0, without unitId,
\* matching no option).
QuoteSessions == BookSessions \cup RequestSessions

QuoteUnitLists == UnitLists \cup RequestUnitLists

\* searchAvailability projected a session for the requested units, and the
\* caller books with the key of that projection and no payments of its own
\* (absent, not an array, or empty).
InitQuote ==
  /\ endpoint = ConstructedEndpoint(None)
  /\ jwtKey = "k1"
  /\ tokenEndpoint = None
  /\ bkSource \in [origin : {"minted"}, session : QuoteSessions, units : QuoteUnitLists]
  /\ availabilityKey =
       PresentedKey(bkSource.origin, bkSource.session, bkSource.units, jwtKey)
  /\ holder = Holder("John", "Doe", "a@b.c")
  /\ participants = <<>>
  /\ payments \in { AbsentPayments, NotAnArray, ArrayOf(<<>>) }
  /\ bkPc = "idle"
  /\ dataFromAvailKey = EmptyPayload
  /\ bookingData = NoBookingData
  /\ bkError = None
  /\ bkCalls = 0

IdleBooking ==
  /\ bkSource = [origin |-> "absent", session |-> NoSession, units |-> <<>>]
  /\ availabilityKey = NoKey
  /\ holder = Holder(None, None, None)
  /\ participants = <<>>
  /\ payments = AbsentPayments
  /\ bkPc = "idle"
  /\ dataFromAvailKey = EmptyPayload
  /\ bookingData = NoBookingData
  /\ bkError = None
  /\ bkCalls = 0

\* No validateToken invocation.
IdleToken ==
  /\ apiKey = None
  /\ events = FALSE
  /\ vtPc = "idle"
  /\ vtRaw = NoRaw
  /\ vtResult = None
  /\ vtError = None
  /\ vtCalls = 0
  /\ emitted = <<>>

\* No projection of a booking.
IdleProjection ==
  /\ tbOp = None
  /\ tbRootValue = [wrapped |-> FALSE,
                    booking |-> [orderNumber |-> None, status |-> None, cancellable |-> None]]
  /\ tbPc = "idle"
  /\ tbData = [id |-> None, status |-> None, cancellable |-> None]

\* No call of validateEndpoint on its own.
IdleEndpoint ==
  /\ veInput = [type |-> "undefined", str |-> "", num |-> 0]
  /\ vePc = "idle"
  /\ veValue = None
  /\ veError = None

\* No call of extractAvailabilityData on its own.
IdleExtract ==
  /\ exData = MkAvailRaw("ok", None, None, "null", {}, <<>>, NoSession)
  /\ exPc = "idle"
  /\ exOut = <<>>

\* No call of calculateSeatsAvailable on its own.
IdleSeats ==
  /\ csAvail = SeatRecord("undefined", Undefined, Undefined, Undefined, Undefined, Undefined)
  /\ csPc = "idle"
  /\ csOut = 0

\* No call of the wrapper on its own.
IdleWrapper ==
  /\ axRaw = NoRaw
  /\ axPc = "idle"
  /\ axResult = PluginAxios(NoRaw)

\* No instance besides the one running the operation; its events are in
\* emitted.
IdleInstances ==
  /\ instances = [p \in 1..MaxInstances |-> NotBuilt]
  /\ interceptors = <<>>
  /\ channel = [p \in 1..MaxInstances |-> <<>>]
  /\ requestsMade = [p \in 1..MaxInstances |-> 0]

\* One searchBooking invocation on a plugin.
InitSearchSpec == InitSearch /\ IdleAvail /\ IdleBooking /\ IdleToken /\ IdleProjection /\ IdleEndpoint /\ IdleExtract /\ IdleSeats /\ IdleWrapper /\ IdleInstances
SpecSearch == InitSearchSpec /\ [][NextSearch]_vars

\* One searchAvailability or availabilityCalendar invocation on a plugin.
InitAvailSpec == InitAvail /\ IdleSearch /\ IdleBooking /\ IdleToken /\ IdleProjection /\ IdleEndpoint /\ IdleExtract /\ IdleSeats /\ IdleWrapper /\ IdleInstances
SpecAvail == InitAvailSpec /\ [][NextAvail]_vars

\* One createBooking invocation on a plugin, with a key from an earlier search.
InitBookingSpec == InitBooking /\ IdleSearch /\ IdleAvail /\ IdleToken /\ IdleProjection /\ IdleEndpoint /\ IdleExtract /\ IdleSeats /\ IdleWrapper /\ IdleInstances
SpecBooking == InitBookingSpec /\ [][NextBooking]_vars

\* One validateToken invocation on a plugin.
InitTokenSpec == InitToken /\ IdleSearch /\ IdleAvail /\ IdleBooking /\ IdleProjection /\ IdleEndpoint /\ IdleExtract /\ IdleSeats /\ IdleWrapper /\ IdleInstances
SpecToken == InitTokenSpec /\ [][NextToken]_vars

\* One createBooking invocation with a valid key: the request it builds.
InitBookingRequestSpec == InitBookingRequest /\ IdleSearch /\ IdleAvail /\ IdleToken /\ IdleProjection /\ IdleEndpoint /\ IdleExtract /\ IdleSeats /\ IdleWrapper /\ IdleInstances
SpecBookingRequest == InitBookingRequestSpec /\ [][NextBooking]_vars

\* One projection of a booking record.
InitProjectionSpec == InitProjection /\ IdleSearch /\ IdleAvail /\ IdleBooking /\ IdleToken /\ IdleEndpoint /\ IdleExtract /\ IdleSeats /\ IdleWrapper /\ IdleInstances
SpecProjection == InitProjectionSpec /\ [][NextProjection]_vars

\* One call of validateEndpoint on an instance.
InitEndpointSpec == InitEndpoint /\ IdleSearch /\ IdleAvail /\ IdleBooking /\ IdleToken /\ IdleProjection /\ IdleExtract /\ IdleSeats /\ IdleWrapper /\ IdleInstances
SpecEndpoint == InitEndpointSpec /\ [][NextEndpoint]_vars

\* One call of extractAvailabilityData.
InitExtractSpec == InitExtract /\ IdleSearch /\ IdleAvail /\ IdleBooking /\ IdleToken /\ IdleProjection /\ IdleEndpoint /\ IdleSeats /\ IdleWrapper /\ IdleInstances
SpecExtract == InitExtractSpec /\ [][NextExtract]_vars

\* One call of calculateSeatsAvailable.
InitSeatsSpec == InitSeats /\ IdleSearch /\ IdleAvail /\ IdleBooking /\ IdleToken /\ IdleProjection /\ IdleEndpoint /\ IdleExtract /\ IdleWrapper /\ IdleInstances
SpecSeats == InitSeatsSpec /\ [][NextSeats]_vars

\* One searchAvailability or availabilityCalendar invocation on any number of
\* products.
InitFanOutSpec == InitFanOut /\ IdleSearch /\ IdleBooking /\ IdleToken /\ IdleProjection /\ IdleEndpoint /\ IdleExtract /\ IdleSeats /\ IdleWrapper /\ IdleInstances
SpecFanOut == InitFanOutSpec /\ [][NextAvail]_vars

\* One availability invocation or one searchBooking invocation.
InitFailuresSpec == InitAvailSpec \/ InitSearchSpec
NextFailures == NextAvail \/ NextSearch
SpecFailures == InitFailuresSpec /\ [][NextFailures]_vars

\* One call of the HTTP wrapper.
InitWrapperSpec == InitWrapper /\ IdleSearch /\ IdleAvail /\ IdleBooking /\ IdleToken /\ IdleProjection /\ IdleEndpoint /\ IdleExtract /\ IdleSeats /\ IdleInstances
SpecWrapper == InitWrapperSpec /\ [][NextWrapper]_vars

\* The instances of one process and the requests made through them.
InitInstancesSpec == InitInstances /\ IdleSearch /\ IdleAvail /\ IdleBooking /\ IdleToken /\ IdleProjection /\ IdleEndpoint /\ IdleExtract /\ IdleSeats /\ IdleWrapper
SpecInstances == InitInstancesSpec /\ [][NextInstances]_vars

\* A quote by searchAvailability, then createBooking with the quoted key.
InitQuoteSpec == InitQuote /\ IdleSearch /\ IdleAvail /\ IdleToken /\ IdleProjection /\ IdleEndpoint /\ IdleExtract /\ IdleSeats /\ IdleWrapper /\ IdleInstances
SpecQuote == InitQuoteSpec /\ [][NextBooking]_vars

\* Any one invocation.
Init == InitSearchSpec \/ InitAvailSpec \/ InitBookingSpec \/ InitTokenSpec \/ InitBookingRequestSpec \/ InitProjectionSpec \/ InitEndpointSpec \/ InitExtractSpec \/ InitSeatsSpec \/ InitFanOutSpec \/ InitWrapperSpec \/ InitInstancesSpec \/ InitQuoteSpec
Next == NextSearch \/ NextAvail \/ NextBooking \/ NextToken \/ NextProjection \/ NextEndpoint \/ NextExtract \/ NextSeats \/ NextWrapper \/ NextInstances
Spec == Init /\ [][Next]_vars

\* ------------------------------------------------ searchBooking: the claims
\* The operation has produced its result or its failure.
SearchSettled == sbPc \in {"resolved", "rejected"}
ById == ~isNilOrEmpty(sbPayload.bookingId)
SearchFailedError == "Search booking failed due to API errors"

\* The upstream answer carries the no-order-found sentinel, as a successful
\* response or as the body of a failed one.
IsSentinelAnswer(raw) ==
  raw.http \in {"ok", "fail"} /\ raw.rs = "false" /\ raw.code = ERROR_CODE_NO_ORDER_FOUND

\* The lookup failed with an error other than the sentinel: a transport error, a
\* failed response or an API-level failure without the sentinel, or a response
\* without a body (the lookup's own TypeError).
FailedWithRealError(raw) ==
  \/ raw.http = "neterr"
  \/ raw.http = "fail" /\ ~IsSentinelAnswer(raw)
  \/ raw.http = "ok" /\ raw.rs = "false" /\ raw.code # ERROR_CODE_NO_ORDER_FOUND
  \/ raw.http = "ok" /\ raw.shape = "null"

\* The answers of the calls this invocation issued.
IssuedAnswers ==
  IF ById THEN {sbRaw[i] : i \in Strategies} ELSE {sbRaw[1]}

\* C1: searchBooking by identifier fails with 'Search booking failed due to API
\* errors' if and only if the merged, deduplicated result is empty and at least
\* one of the three lookups failed with an error other than the sentinel;
\* otherwise it succeeds.
C1_FailsIffEmptyAndRealError ==
  (SearchSettled /\ ById) =>
    /\ (sbPc = "rejected" /\ sbError = SearchFailedError)
         <=> (bookings = <<>> /\ \E i \in Strategies : FailedWithRealError(sbRaw[i]))
    /\ sbPc = "rejected" => sbError = SearchFailedError

\* C2: in both branches of searchBooking, when every upstream lookup answers
\* with the no-order-found sentinel (as a successful response or as the body of
\* a failed one, with or without a details object), the operation resolves to
\* an empty bookings list and surfaces no error.
C2_SentinelsAbsorbed ==
  (SearchSettled /\ sbCalls > 0 /\ \A raw \in IssuedAnswers : IsSentinelAnswer(raw)) =>
    (sbPc = "resolved" /\ bookings = <<>> /\ sbError = None)

\* The claim's deduplication key: orderNumber, or id when orderNumber is absent.
KeyOf(b) == IF b.orderNumber # None THEN b.orderNumber ELSE b.id

\* What the three lookups returned, in the fixed strategy order.
InStrategyOrder == results[1].list \o results[2].list \o results[3].list

\* C8: in the by-identifier branch the list handed to projection holds no two
\* bookings with the same deduplication key, no booking without a key, and for
\* each key the first occurrence in the strategy order direct-id, reseller
\* reference, free-text search.
C8_DedupFirstOccurrence ==
  (SearchSettled /\ ById) =>
    LET all == InStrategyOrder
    IN  /\ \A i, j \in 1..Len(bookings) :
             i # j => KeyOf(bookings[i]) # KeyOf(bookings[j])
        /\ \A i \in 1..Len(bookings) : KeyOf(bookings[i]) # None
        /\ \A i \in 1..Len(bookings) :
             \E k \in 1..Len(all) :
               /\ all[k] = bookings[i]
               /\ \A m \in 1..(k - 1) : KeyOf(all[m]) # KeyOf(all[k])
        /\ \A k \in 1..Len(all) :
             KeyOf(all[k]) # None =>
               \E i \in 1..Len(bookings) : KeyOf(bookings[i]) = KeyOf(all[k])

\* C8 witness: the lookups returned two different bookings with one key and a
\* booking without a key, and the operation resolved.
C8_Witness ==
  /\ sbPc = "resolved" /\ ById
  /\ \E k, m \in 1..Len(InStrategyOrder) :
       /\ k < m
       /\ InStrategyOrder[k] # InStrategyOrder[m]
       /\ KeyOf(InStrategyOrder[k]) = KeyOf(InStrategyOrder[m])
       /\ KeyOf(InStrategyOrder[k]) # None
  /\ \E k \in 1..Len(InStrategyOrder) : KeyOf(InStrategyOrder[k]) = None

\* C9: every payload that passes the 'at least one parameter is required'
\* check has a bookingId or a travelDateStart, so the operation never returns
\* the fall-through empty result without having issued an upstream lookup.
C9_NoFallThrough ==
  sbPc = "resolved" => sbCalls > 0

\* ------------------------------------- searchAvailability/calendar: the claims
AvailResolved == avPc = "resolved"

\* The records of the output, whatever their group.
OutputRecords ==
  UNION { { avOut[g][k] : k \in 1..Len(avOut[g]) } : g \in 1..Len(avOut) }

\* The status the claim speaks of: the session's own, or AVAILABLE when none is
\* given and the seat count is positive ("none" when it cannot be derived).
StatusOfSession(s) ==
  IF s.status # None THEN s.status
  ELSE IF s.availabilityStatus # None THEN s.availabilityStatus
  ELSE IF s.seatsAvailable # Absent /\ s.seatsAvailable[1] > 0 THEN "AVAILABLE"
  ELSE None

Sellable(s) ==
  /\ s.startTimeLocal # None
  /\ StatusOfSession(s) \in {"AVAILABLE", "FREESALE"}

FetchedSessions ==
  UNION { { availability[i][k] : k \in 1..Len(availability[i]) } :
            i \in 1..Len(availability) }

\* C6: in both operations, every record of the returned availability comes from
\* a fetched upstream session that has a start and whose status, its own or
\* derived from a positive seat count, is AVAILABLE or FREESALE; a key is only
\* ever attached to such a record.
C6_OnlySellableSessions ==
  AvailResolved =>
    \A r \in OutputRecords :
      /\ r.avail \in FetchedSessions
      /\ Sellable(r.avail)
      /\ r.result.dateTimeStart = r.avail.startTimeLocal
      /\ r.result.key.kind = "jwt" =>
           r.result.key.payload.items[1].startTimeLocal = r.avail.startTimeLocal

\* C6 happens: an operation resolved with a record in its output after having
\* fetched a session that is not sellable.
C6_Witness ==
  /\ AvailResolved
  /\ OutputRecords # {}
  /\ \E s \in FetchedSessions : ~Sellable(s)

\* The index a session was fetched for: upstream answers the request for
\* productIds[i] with sessions of that product, and product ids are distinct.
IndexesOf(s) ==
  { i \in 1..Len(avPayload.productIds) : avPayload.productIds[i] = s.productCode }

\* C7: whatever order the responses completed in, every projected session was
\* projected, and its key minted, with the product id, option id, units and
\* pickup points of the index it was fetched for.
C7_IndexPairing ==
  AvailResolved =>
    \A r \in OutputRecords :
      \E i \in IndexesOf(r.avail) :
        /\ \E k \in 1..Len(availability[i]) : availability[i][k] = r.avail
        /\ r.variableValues.productId = avPayload.productIds[i]
        /\ r.variableValues.optionId = avPayload.optionIds[i]
        /\ r.variableValues.unitsWithQuantity = avPayload.units[i]
        /\ r.pickupPoints = pickupPointsByProduct[i]
        /\ \A k \in 1..Len(r.pickupPoints) :
             r.pickupPoints[k].forProduct = avPayload.productIds[i]
        /\ r.result.key.kind = "jwt" =>
             /\ r.result.key.payload.items[1].productCode = avPayload.productIds[i]
             /\ r.result.key.payload.items[1].quantities =
                  KeyQuantities(avPayload.units[i], r.avail.priceOptions)

\* C7 happens: an operation on two or more products resolved with a record of a
\* product other than the first, with pickup points, while the response for
\* the first product held no session.
C7_Witness ==
  /\ AvailResolved
  /\ Len(avPayload.productIds) >= 2
  /\ availability[1] = <<>>
  /\ \E r \in OutputRecords :
       /\ r.avail.productCode = avPayload.productIds[2]
       /\ r.pickupPoints # <<>>
       /\ r.result.key.kind = "jwt"

\* The payload passes every check of availabilityCalendar.
PayloadPassesChecks ==
  /\ Len(avPayload.productIds) = Len(avPayload.optionIds)
  /\ Len(avPayload.optionIds) = Len(avPayload.units)
  /\ \A i \in 1..Len(avPayload.productIds) : avPayload.productIds[i] # NoId
  /\ \A i \in 1..Len(avPayload.optionIds) : avPayload.optionIds[i] # NoId

\* C10: on a plugin without a secret, searchAvailability rejects with 'JWT
\* secret should be set' for every payload and issues no upstream call;
\* availabilityCalendar never fails with that error and, for a payload that
\* passes its checks and names a product, issues its upstream calls.
C10_SecretCheckedFirstBySearchOnly ==
  (jwtKey = None /\ avPc # "idle") =>
    /\ avOp = "searchAvailability" =>
         /\ avPc = "rejected"
         /\ avError = "JWT secret should be set"
         /\ availCalls = 0
         /\ pickupCalls = 0
    /\ avOp = "availabilityCalendar" =>
         /\ avError # "JWT secret should be set"
         /\ (PayloadPassesChecks /\ tokenEndpoint = None
               /\ Len(avPayload.productIds) > 0) => availCalls > 0

\* searchAvailability on a plugin without a secret was rejected with a payload
\* that fails another check as well.
SearchRejectedForSecret ==
  /\ jwtKey = None
  /\ avOp = "searchAvailability"
  /\ ~PayloadPassesChecks
  /\ avPc = "rejected"

\* C10 happens: availabilityCalendar on a plugin without a secret resolved
\* with records, none of which has a key.
C10_Witness ==
  /\ jwtKey = None
  /\ avOp = "availabilityCalendar"
  /\ AvailResolved
  /\ availCalls > 0
  /\ OutputRecords # {}
  /\ \A r \in OutputRecords : r.result.key.kind = None

\* ------------------------------------------------------ createBooking: the claims
BookingStarted == bkPc # "idle"

\* C3: createBooking only posts a booking for a key that verifies under the
\* plugin's own secret: with a key signed with another secret, altered after
\* signing, or malformed, it rejects and issues no POST /bookings.
C3_OnlyVerifiedKeysAreSubmitted ==
  /\ (BookingStarted /\ bkSource.origin \in {"foreign", "altered", "malformed"}) =>
       /\ bkPc = "rejected"
       /\ bkCalls = 0
       /\ bookingData = NoBookingData
  /\ bkCalls > 0 =>
       /\ jwtKey # None
       /\ availabilityKey.kind = "jwt"
       /\ availabilityKey.mac = [over |-> availabilityKey.payload, secret |-> jwtKey]

\* C3 happens: a caller with a complete holder and a valid endpoint presented
\* a key that is a well-formed token signed with another secret, and was
\* rejected at the verification.
C3_Witness ==
  /\ bkSource.origin = "foreign"
  /\ availabilityKey.kind = "jwt"
  /\ availabilityKey.payload.items # <<>>
  /\ bkPc = "rejected"
  /\ bkError = "jwt verification failed"

\* The price options a unit id matches: by id or unitId, whatever the case.
Lower(str) ==
  IF str = "ADULTS" THEN "adults" ELSE IF str = "CHILD" THEN "child" ELSE str

MatchingOptions(priceOptions, unitId) ==
  { k \in 1..Len(priceOptions) :
      \/ priceOptions[k].id # None /\ Lower(priceOptions[k].id) = Lower(unitId)
      \/ priceOptions[k].unitId # None /\ Lower(priceOptions[k].unitId) = Lower(unitId) }

PriceAt(priceOptions, k) ==
  IF priceOptions[k].price # Absent THEN priceOptions[k].price[1]
  ELSE IF priceOptions[k].amount # Absent THEN priceOptions[k].amount[1] ELSE 0

\* The sum of price x quantity over the units that match a price option.
RECURSIVE ExpectedTotal(_, _)
ExpectedTotal(units, priceOptions) ==
  IF units = <<>> THEN 0
  ELSE LET u == Head(units)
           M == IF u.unitId = None THEN {} ELSE MatchingOptions(priceOptions, u.unitId)
       IN  (IF M = {} THEN 0
            ELSE PriceAt(priceOptions, CHOOSE k \in M : \A m \in M : k <= m) * u.quantity)
           + ExpectedTotal(Tail(units), priceOptions)

HasQuantity(u) == u.quantity > 0

\* The requested quantities that are greater than 0, in request order.
ExpectedValues(units) ==
  LET kept == SelectSeq(units, HasQuantity)
  IN  [k \in 1..Len(kept) |-> kept[k].quantity]

\* The caller presents the key this plugin minted for a sellable session, with
\* a complete holder, to a plugin whose endpoint is valid.
RoundTripCase ==
  /\ BookingStarted
  /\ bkSource.origin = "minted"
  /\ jwtKey # None
  /\ Sellable(bkSource.session)
  /\ holder.name # None
  /\ holder.surname # None
  /\ tokenEndpoint = None

\* C4: the key minted by the projection for a sellable session verifies at
\* booking creation and yields exactly one item, with the requested product
\* id and the session's start, one {optionLabel, value} entry per requested
\* unit of quantity greater than 0 in request order, and a totalAmount that is
\* the sum of price x quantity over the units matching a price option
\* identifier whatever the letter case.
C4_KeyRoundTrip ==
  RoundTripCase =>
    /\ bkError # "jwt verification failed"
    /\ bkCalls = 1
    /\ Len(dataFromAvailKey.items) = 1
    /\ dataFromAvailKey.items[1].productCode = BookedProduct
    /\ dataFromAvailKey.items[1].startTimeLocal = bkSource.session.startTimeLocal
    /\ LET q == dataFromAvailKey.items[1].quantities
       IN  /\ [k \in 1..Len(q) |-> q[k].value] = ExpectedValues(bkSource.units)
           /\ \A k \in 1..Len(q) : q[k].optionLabel # None
           /\ bookingData.items[1].quantities = q
    /\ bookingData.items[1].productCode = BookedProduct
    /\ bookingData.items[1].startTimeLocal = bkSource.session.startTimeLocal
    /\ dataFromAvailKey.totalAmount =
         ExpectedTotal(bkSource.units, bkSource.session.priceOptions)

\* C4 happens: a key was minted for two units, one matching a price option in
\* another letter case and one of quantity 0, and the booking was posted with
\* a total that is not zero.
C4_Witness ==
  /\ RoundTripCase
  /\ bkPc = "posting"
  /\ Len(bkSource.units) = 2
  /\ bkSource.units[1].unitId = "child"
  /\ bkSource.units[2].quantity = 0
  /\ Len(dataFromAvailKey.items[1].quantities) = 1
  /\ dataFromAvailKey.totalAmount = 75

\* C5: createBooking rejects without any upstream call when the key is absent,
\* when holder.name is absent, or when holder.surname is absent, with the
\* error of the first of these, in that order.
C5_ValidationOrder ==
  BookingStarted =>
    /\ availabilityKey.kind = None =>
         /\ bkPc = "rejected"
         /\ bkError = "an availability code is required !"
         /\ bkCalls = 0
    /\ (availabilityKey.kind # None /\ holder.name = None) =>
         /\ bkPc = "rejected"
         /\ bkError = "a holder's first name is required"
         /\ bkCalls = 0
    /\ (availabilityKey.kind # None /\ holder.name # None /\ holder.surname = None) =>
         /\ bkPc = "rejected"
         /\ bkError = "a holder's surname is required"
         /\ bkCalls = 0

\* C5 happens: a payload without key, without holder name and without holder
\* surname, on a plugin whose endpoint is not valid either, was rejected for
\* the key.
C5_Witness ==
  /\ bkPc = "rejected"
  /\ availabilityKey.kind = None
  /\ holder.name = None
  /\ holder.surname = None
  /\ tokenEndpoint # None
  /\ bkError = "an availability code is required !"

\* ------------------------------------------------ C11: payload validation
\* C11: both operations reject, with no upstream call issued, whenever the
\* three lists differ in length or a product id or option id is falsy; an
\* upstream call is only ever issued for a payload whose lists have one length
\* and whose ids are all truthy.
C11_LengthAndIdValidation ==
  avPc # "idle" =>
    /\ ~PayloadPassesChecks =>
         /\ avPc = "rejected"
         /\ avError \in {"JWT secret should be set",
                         "mismatched productIds/options length",
                         "mismatched options/units length",
                         "some invalid productId(s)", "some invalid optionId(s)"}
         /\ availCalls = 0
         /\ pickupCalls = 0
    /\ (availCalls > 0 \/ pickupCalls > 0) => PayloadPassesChecks
    /\ (PayloadPassesChecks /\ tokenEndpoint = None /\ Len(avPayload.productIds) > 0
          /\ (avOp = "availabilityCalendar" \/ jwtKey # None)) => availCalls > 0

\* C11 happens: availabilityCalendar was rejected for a falsy option id in a
\* payload whose lists have one length and whose product ids are truthy.
C11_Witness ==
  /\ avOp = "availabilityCalendar"
  /\ avPc = "rejected"
  /\ avError = "some invalid optionId(s)"
  /\ Len(avPayload.productIds) = Len(avPayload.units)
  /\ availCalls = 0

\* ------------------------------------------------------ validateToken: the claims
\* C12: validateToken always resolves to a boolean and never rejects, whatever
\* the token and whatever upstream does; it resolves to true exactly when the
\* products call succeeded with a non-empty product array.
C12_AlwaysResolvesBoolean ==
  vtPc \notin {"idle", "pending"} =>
    /\ vtPc = "resolved"
    /\ vtResult \in {"true", "false"}
    /\ vtResult = "true" <=>
         (vtRaw.http = "ok" /\ vtRaw.shape = "products" /\ vtRaw.list # <<>>)

\* C13: no event emitted for an upstream call, be it axios.request,
\* axios.response or axios.error, carries the API key of the call.
C13_EventsHideApiKey ==
  \A i \in 1..Len(emitted) :
    /\ emitted[i].request.headers.apiKey \notin ApiKeys
    /\ emitted[i].request.url \notin ApiKeys

\* ------------------------------------------- createBooking's request: the claims
RequestSubmitted == bkCalls > 0

NoPaymentsSupplied == payments.kind # "array" \/ payments.list = <<>>

\* The amount a valid supplied amount stands for, 0 for any other.
ExpectedAmount(amount) ==
  IF amount.type = "number" /\ amount.n >= 0 THEN amount.n ELSE 0

\* The key's total amount, 0 when it is not valid.
ExpectedDefaultAmount ==
  IF dataFromAvailKey.totalAmount >= 0 THEN dataFromAvailKey.totalAmount ELSE 0

C15_DefaultPayment ==
  (RequestSubmitted /\ NoPaymentsSupplied) =>
    bookingData.payments =
      <<Payment(ExpectedDefaultAmount, "CASH", "SUPPLIER", "Payment")>>

\* The fields of a participant given by first and last name.
FieldsOf(firstName, lastName) ==
  [fields |->
     (IF firstName # None THEN <<[label |-> "First Name", value |-> firstName]>> ELSE <<>>)
     \o (IF lastName # None THEN <<[label |-> "Last Name", value |-> lastName]>> ELSE <<>>)]

RECURSIVE SumOfValues(_)
SumOfValues(q) == IF q = <<>> THEN 0 ELSE q[1].value + SumOfValues(Tail(q))

Max(a, b) == IF a >= b THEN a ELSE b

\* C16: every item of a request has max(#supplied, max(sum of the item's
\* quantity values, 1)) participants: the supplied ones first, in order and
\* none dropped, then holder-derived ones up to the target.
C16_ParticipantCount ==
  RequestSubmitted =>
    \A k \in 1..Len(bookingData.items) :
      LET item == bookingData.items[k]
          target == Max(SumOfValues(item.quantities), 1)
      IN  /\ Len(item.participants) = Max(Len(participants), target)
          /\ \A j \in 1..Len(item.participants) :
               item.participants[j] =
                 IF j <= Len(participants)
                   THEN FieldsOf(participants[j].firstName, participants[j].lastName)
                   ELSE FieldsOf(holder.name, holder.surname)

\* C16 happens: a request was submitted for three seats with one supplied
\* participant, padded with two holder-derived ones.
C16_Witness ==
  /\ RequestSubmitted
  /\ Len(participants) = 1
  /\ SumOfValues(bookingData.items[1].quantities) = 3
  /\ Len(bookingData.items[1].participants) = 3

\* ---------------------------------------------------- translateBooking: the claims
\* C17: for every booking record projected by createBooking, cancelBooking or
\* searchBooking, the projected cancellable is false when the record's status
\* is CANCELLED, whatever upstream says, and the upstream value for any other
\* status.
C17_CancelledNeverCancellable ==
  tbPc = "done" =>
    /\ tbRootValue.booking.status = "CANCELLED" => tbData.cancellable = "false"
    /\ tbRootValue.booking.status # "CANCELLED" =>
         tbData.cancellable = tbRootValue.booking.cancellable

\* C17 happens: a CANCELLED booking that upstream calls cancellable was
\* projected by cancelBooking.
C17_Witness ==
  /\ tbPc = "done"
  /\ tbOp = "cancelBooking"
  /\ tbRootValue.booking.status = "CANCELLED"
  /\ tbRootValue.booking.cancellable = "true"
  /\ tbData.cancellable = "false"

\* ---------------------------------------------------- validateEndpoint: the claims
InputAbsentOrEmpty ==
  veInput.type \in {"undefined", "null"} \/ veInput = JsString("")

InputIsUrl ==
  veInput.type = "string" /\ veInput.str \in {"https://api.rezdy.com/v1", "https://x.com"}

\* C18: validateEndpoint(e) returns the instance's endpoint (the production
\* default when it has none) for an absent or empty e, returns e unchanged when
\* e is a string that is a well-formed URL, and throws 'Invalid endpoint URL'
\* for every other input, string or not.
C18_ValidateEndpointCases ==
  vePc # "idle" =>
    /\ InputAbsentOrEmpty =>
         /\ vePc = "returned"
         /\ veValue = IF endpoint \in {None, ""} THEN "https://api.rezdy.com/v1"
                      ELSE endpoint
    /\ InputIsUrl => (vePc = "returned" /\ veValue = veInput.str)
    /\ (~InputAbsentOrEmpty /\ ~InputIsUrl) =>
         (vePc = "threw" /\ veError = "Invalid endpoint URL")

\* C19: whatever the argument and whatever endpoint the instance was built
\* with or assigned, a value validateEndpoint returns is a well-formed
\* absolute URL.
C19_ReturnsWellFormedUrl ==
  vePc = "returned" => veValue \in {"https://api.rezdy.com/v1", "https://x.com"}

\* --------------------------------------------- extractAvailabilityData: the claims
\* C20: extractAvailabilityData throws for no payload, always returns an
\* array, and returns the empty array for every payload whose
\* requestStatus.success is false, whatever other fields it carries.
C20_ExtractNeverThrows ==
  exPc # "idle" =>
    /\ exPc = "returned"
    /\ exOut \in Seq({ exOut[k] : k \in DOMAIN exOut })
    /\ DOMAIN exOut = 1..Len(exOut)
    /\ (exData.shape = "object" /\ exData.rs = "false") => exOut = <<>>
    /\ exData.shape \in {"null", "primitive"} => exOut = <<>>

\* C20 happens: a payload whose requestStatus.success is false and that
\* carries sessions as well was given, and the empty array came back.
C20_Witness ==
  /\ exPc = "returned"
  /\ exData.shape = "object"
  /\ exData.rs = "false"
  /\ "sessions" \in exData.has
  /\ exData.sessions # <<>>
  /\ exOut = <<>>

\* The field f of the payload holds a populated array.
Populated(f) == f \in exData.has /\ exData[f] # <<>>

\* The fields of order, a sequence of field names, that hold a populated array.
PopulatedIn(order) == { k \in DOMAIN order : Populated(order[k]) }

\* The first populated array among the fields of order.
FirstPopulated(order) ==
  exData[order[CHOOSE k \in PopulatedIn(order) : \A j \in PopulatedIn(order) : k <= j]]

WrappedOrder == <<"sessions", "availability", "data", "items">>
PlainOrder == <<"data", "availability", "sessions", "items">>

\* C21: for an object with a requestStatus that did not fail,
\* extractAvailabilityData returns the first populated array among sessions,
\* availability, data, items; for an object without requestStatus, the first
\* populated array among data, availability, sessions, items; a populated
\* array of lower priority is returned when no field of higher priority holds
\* a populated array.
C21_FirstPopulatedArray ==
  (exPc = "returned" /\ exData.shape = "object") =>
    /\ (exData.rs = "true" /\ PopulatedIn(WrappedOrder) # {})
          => exOut = FirstPopulated(WrappedOrder)
    /\ (exData.rs = None /\ PopulatedIn(PlainOrder) # {})
          => exOut = FirstPopulated(PlainOrder)

\* ------------------------------------------- calculateSeatsAvailable: the claims
SeatFields == <<"seatsAvailable", "available", "vacancies", "availableSeats", "remainingSeats">>

\* The seat fields of the record that are defined.
DefinedSeatFields == { k \in DOMAIN SeatFields : csAvail[SeatFields[k]].type # "undefined" }

\* The value the result is taken from: the first defined field, 0 if none is.
ChosenSeats ==
  IF DefinedSeatFields = {} THEN JsNumber(0)
  ELSE csAvail[SeatFields[CHOOSE k \in DefinedSeatFields :
                            \A j \in DefinedSeatFields : k <= j]]

\* C22: calculateSeatsAvailable returns 0 for a null or undefined record;
\* otherwise the first defined field among seatsAvailable, available,
\* vacancies, availableSeats, remainingSeats (0 if none) coerced to a number,
\* 0 when the coercion is not-a-number; no later field is used when an earlier
\* one is defined and negative values are returned unchanged.
C22_FirstDefinedSeatField ==
  csPc = "returned" =>
    /\ csAvail.type \in {"undefined", "null"} => csOut = 0
    /\ csAvail.type = "object" =>
         /\ ToNumber(ChosenSeats).nan => csOut = 0
         /\ ~ToNumber(ChosenSeats).nan => csOut = ToNumber(ChosenSeats).n
         /\ (ChosenSeats.type = "number" /\ ChosenSeats.num < 0) => csOut = ChosenSeats.num

\* C22 happens: the first field is undefined, the second is zero and the
\* third is positive, and zero came back.
C22_Witness ==
  /\ csPc = "returned"
  /\ csAvail.type = "object"
  /\ csAvail.seatsAvailable = Undefined
  /\ csAvail.available = JsNumber(0)
  /\ csAvail.vacancies = JsNumber(7)
  /\ csOut = 0

\* The requested indexes whose response held at least one sellable session.
SellableIndexes ==
  { i \in 1..Len(availability) :
      \E k \in 1..Len(availability[i]) : Sellable(availability[i][k]) }

\* The g-th of them, in the order of productIds.
NthSellableIndex(g) ==
  CHOOSE i \in SellableIndexes : Cardinality({ j \in SellableIndexes : j <= i }) = g

\* The sellable sessions fetched for index i, in the order upstream gave them.
SellableOf(i) == SelectSeq(availability[i], Sellable)

\* C23: the availability array of both operations holds one group per
\* requested product with at least one sellable session, in the order of
\* productIds; every group is non-empty and without null entries, a product
\* without sellable session has no group, and every record of a
\* searchAvailability group has a key.
C23_OneGroupPerSellableProduct ==
  AvailResolved =>
    /\ Len(avOut) = Cardinality(SellableIndexes)
    /\ \A g \in 1..Len(avOut) :
         /\ avOut[g] # <<>>
         /\ \A k \in 1..Len(avOut[g]) :
              /\ ~avOut[g][k].isNull
              /\ avOut[g][k].avail.productCode = avPayload.productIds[NthSellableIndex(g)]
              /\ avOp = "searchAvailability" => avOut[g][k].result.key.kind = "jwt"
         /\ [k \in 1..Len(avOut[g]) |-> avOut[g][k].avail] = SellableOf(NthSellableIndex(g))

\* C23 happens: searchAvailability on two products resolved with one group,
\* that of the second product, the response for the first having held a
\* session that is not sellable.
C23_Witness ==
  /\ AvailResolved
  /\ avOp = "searchAvailability"
  /\ Len(avPayload.productIds) = 2
  /\ availability[1] # <<>>
  /\ 1 \notin SellableIndexes
  /\ Len(avOut) = 1
  /\ avOut[1][1].avail.productCode = avPayload.productIds[2]
  /\ avOut[1][1].result.key.kind = "jwt"

\* ------------------------------------------------------ concurrency: the claims
\* C24: at every moment of searchAvailability and availabilityCalendar at
\* most 3 upstream calls of the operation are in flight, however many products
\* are requested, and as many calls were issued as have been started; the
\* lookups of searchBooking are three (Strategies) and every other operation
\* issues one call.
C24_AtMostThreeInFlight ==
  /\ Cardinality(avInflight) <= CONCURRENCY
  /\ Cardinality(Strategies) <= CONCURRENCY
  /\ avPc \in {"fetch", "pickups"} =>
       availCalls + pickupCalls + Cardinality(avQueued)
         = Len(avPayload.productIds) * (IF avPc = "fetch" THEN 1 ELSE 2)

\* C24 happens: an availability operation on more products than the cap has
\* three calls in flight and requests waiting for a free slot.
C24_Witness ==
  /\ Len(avPayload.productIds) > CONCURRENCY
  /\ avPc \in {"fetch", "pickups"}
  /\ Cardinality(avInflight) = CONCURRENCY
  /\ avQueued # {}

\* ------------------------------------------------------ failures: the claims
\* Upstream answered the request with an error other than the no-order-found
\* sentinel: a transport error, a failed response, or a body whose
\* requestStatus.success is false.
UpstreamFailure(raw) ==
  /\ \/ raw.http \in {"neterr", "fail"}
     \/ raw.http = "ok" /\ raw.rs = "false"
  /\ ~IsSentinelAnswer(raw)

\* The indexes whose availability request, or pickup request, was answered
\* otherwise than with a plain success.
AnsweredFetches == { i \in DOMAIN avRaw : avRaw[i].http # None }
AnsweredPickups == { i \in DOMAIN pkRaw : pkRaw[i].http # None }

\* A request of the availability operation failed.
SomeFetchFailed ==
  \/ \E i \in AnsweredFetches : UpstreamFailure(avRaw[i])
  \/ \E i \in AnsweredPickups : UpstreamFailure(pkRaw[i])

\* C25: no upstream call is retried and one failed call fails its operation.
\* In searchAvailability and availabilityCalendar, once the availability or
\* the pickup request of one product has failed with an error other than the
\* sentinel the operation is rejected and returns no availability, every
\* request was issued at most once, and the failed one is neither in flight
\* nor waiting again; the date-range branch of searchBooking, after one call,
\* rejects on such an error.
C25_NoRetryOneFailureFails ==
  /\ SomeFetchFailed => (avPc = "rejected" /\ avError # None /\ avOut = <<>>)
  /\ avPc \notin {"idle", None} =>
       /\ availCalls <= Len(avPayload.productIds)
       /\ pickupCalls <= Len(avPayload.productIds)
       /\ avPc = "fetch" => AnsweredFetches \cap (avInflight \cup avQueued) = {}
       /\ avPc = "pickups" => AnsweredPickups \cap (avInflight \cup avQueued) = {}
       /\ avPc = "rejected" =>
            \A i \in AnsweredFetches \cup AnsweredPickups :
              (UpstreamFailure(avRaw[i]) \/ UpstreamFailure(pkRaw[i]))
                => i \notin avInflight \cup avQueued
       /\ availCalls + pickupCalls + Cardinality(avQueued)
            <= 2 * Len(avPayload.productIds)
  /\ (SearchSettled /\ ~ById /\ sbCalls > 0 /\ UpstreamFailure(sbRaw[1])) =>
       (sbPc = "rejected" /\ sbError # None /\ sbCalls = 1)

\* C25 happens: with two products, the availability request of the first
\* returned sessions, the pickup request of the second failed, and the
\* operation was rejected after two availability and two pickup requests.
C25_Witness ==
  /\ avPc = "rejected"
  /\ Len(avPayload.productIds) = 2
  /\ Len(availability) = 2
  /\ availability[1] # <<>>
  /\ 2 \in AnsweredPickups
  /\ UpstreamFailure(pkRaw[2])
  /\ availCalls = 2
  /\ pickupCalls = 2
  /\ avOut = <<>>

\* ------------------------------------------------------ the wrapper: the claims
\* C26: for a received response, the wrapper raises an error exactly when the
\* body has requestStatus.success false and an error code other than the
\* sentinel '24'; a response with the sentinel, and every response whose
\* requestStatus.success is not false, is returned as it is.
C26_RaisesIffFailedAndNotSentinel ==
  (axPc # "idle" /\ axRaw.http = "ok") =>
    /\ axPc = "threw" <=>
         (axRaw.shape # "null" /\ axRaw.rs = "false"
            /\ axRaw.code # ERROR_CODE_NO_ORDER_FOUND)
    /\ axPc = "returned" => axResult.response = axRaw

\* ------------------------------------------- completion order: the claims
\* What the three lookups return for the answers upstream gave, in the order
\* direct-id, reseller reference, free-text search.
ResultsOfAnswers == [i \in Strategies |-> searchByUrl(sbRaw[i]).result]

\* One of the answers makes its lookup record an error.
SomeAnswerIsRealError == \E i \in Strategies : searchByUrl(sbRaw[i]).realError

\* C27: searchBooking by identifier produces its result or failure only after
\* its three lookups have settled, a failed lookup leaves the others running
\* and their results in use, and the bookings returned, their order and the
\* decision to fail are determined by the three answers alone, whatever the
\* order the lookups completed in.
C27_OrderIndependent ==
  (ById /\ sbCalls > 0) =>
    /\ sbInflight # {} => sbPc = "lookups"
    /\ sbPc = "lookups" =>
         \A i \in Strategies \ sbInflight : results[i] = ResultsOfAnswers[i]
    /\ SearchSettled =>
         /\ sbInflight = {}
         /\ \A i \in Strategies : sbRaw[i].http # None
         /\ bookings = Dedup(AllBookings(ResultsOfAnswers))
         /\ sbPc = "rejected" <=> (bookings = <<>> /\ SomeAnswerIsRealError)

\* C27 happens: the free-text search, the last of the three, completed first
\* with a booking, the reseller-reference lookup failed, and the direct-id
\* lookup is still in flight.
C27_Witness ==
  /\ ById
  /\ sbPc = "lookups"
  /\ sbInflight = {1}
  /\ results[3].list # <<>>
  /\ searchByUrl(sbRaw[2]).realError

\* ------------------------------------------------------ instances: the claims
\* The events of the given kind on the emitter of instance q.
EventsOfKind(q, kind) ==
  { k \in 1..Len(channel[q]) : channel[q][k].name[2] = kind }

\* C28: operations share no mutable state besides the configuration: a
\* request made through one Plugin instance emits its request event, and its
\* response event, once and on the emitter of that instance only, however many
\* instances exist.
C28_EventsOnOwnChannelOnce ==
  \A q \in 1..MaxInstances :
    /\ \A k \in 1..Len(channel[q]) : channel[q][k].through = q
    /\ Cardinality(EventsOfKind(q, "axios.request"))
         = (IF instances[q].events THEN requestsMade[q] ELSE 0)
    /\ Cardinality(EventsOfKind(q, "axios.response")) <= requestsMade[q]

\* ------------------------------------------------------ pickup points: the claims
\* C29: one searchAvailability or availabilityCalendar call that resolves has
\* issued as many pickup requests as productIds has entries, and as many
\* availability requests, whether a product returned no session, one or
\* several; every projected session of a product carries the pickup points
\* fetched by that product's one request.
C29_OnePickupRequestPerProduct ==
  /\ avPc = "pickups" =>
       pickupCalls + Cardinality(avQueued) = Len(avPayload.productIds)
  /\ AvailResolved =>
       /\ pickupCalls = Len(avPayload.productIds)
       /\ availCalls = Len(avPayload.productIds)
       /\ \A g \in 1..Len(avOut) : \A k \in 1..Len(avOut[g]) :
            /\ avOut[g][k].pickupPoints = pickupPointsByProduct[NthSellableIndex(g)]
            /\ \A m \in 1..Len(avOut[g][k].pickupPoints) :
                 avOut[g][k].pickupPoints[m].forProduct = avOut[g][k].avail.productCode
            /\ avOut[g][k].result.pickupAvailable
                 = (pickupPointsByProduct[NthSellableIndex(g)] # <<>>)

\* C29 happens: with two products, the first returned no session and the
\* second two, both projected with the pickup points of the second product,
\* after two pickup requests.
C29_Witness ==
  /\ AvailResolved
  /\ Len(avPayload.productIds) = 2
  /\ availability[1] = <<>>
  /\ Len(availability[2]) = 2
  /\ pickupCalls = 2
  /\ Len(avOut) = 1
  /\ Len(avOut[1]) = 2
  /\ avOut[1][1].pickupPoints # <<>>
  /\ avOut[1][2].pickupPoints = avOut[1][1].pickupPoints

\* The record searchAvailability projected for the session the key was minted
\* for, with the requested units.
QuotedProjection ==
  ProjectSession(bkSource.session, 1,
                 [productIds |-> <<BookedProduct>>, optionIds |-> <<OptionIdAt(1)>>,
                  units |-> <<bkSource.units>>],
                 <<(<<>>)>>, jwtKey)

ShownPrice == QuotedProjection.result.pricing

\* C30 as stated: for every sellable session projected by searchAvailability
\* the totalAmount signed into the key equals the pricing total projected for
\* the same session, for every unit list and price-option list, and the
\* default payment createBooking sends is that same value.
C30_KeyTotalShownPriceAndPaymentAgree ==
  ~QuotedProjection.isNull =>
    /\ availabilityKey.kind = "jwt"
    /\ availabilityKey.payload.totalAmount = ShownPrice
    /\ (RequestSubmitted /\ NoPaymentsSupplied) =>
         /\ Len(bookingData.payments) = 1
         /\ bookingData.payments[1].amount = ShownPrice

\* C30 amended: the totalAmount signed into the key equals the pricing total
\* projected for the same session, for every unit list and price-option list;
\* the default payment createBooking sends is that value when it is 0 or
\* more, and 0 when the total is negative.
C30_KeyTotalIsShownPrice ==
  ~QuotedProjection.isNull =>
    /\ availabilityKey.kind = "jwt"
    /\ availabilityKey.payload.totalAmount = ShownPrice
    /\ (RequestSubmitted /\ NoPaymentsSupplied) =>
         /\ Len(bookingData.payments) = 1
         /\ bookingData.payments[1].amount = (IF ShownPrice < 0 THEN 0 ELSE ShownPrice)

\* C30 happens: two adults and a child were quoted on a session that prices
\* both, and the booking was submitted with the quoted total as its payment.
C30_Witness ==
  /\ RequestSubmitted
  /\ NoPaymentsSupplied
  /\ ~QuotedProjection.isNull
  /\ Len(bkSource.units) = 2
  /\ bkSource.units[1].quantity = 2
  /\ ShownPrice > 0
  /\ ShownPrice = PriceOf(AdultOption) * 2 + PriceOf(ChildOption)
  /\ availabilityKey.payload.totalAmount = ShownPrice
  /\ bookingData.payments[1].amount = ShownPrice

====
